---- MODULE Spec2Model ----
(***************************************************************************)
(* Model of the GyaanSetu / LeafAI chat client (agent.js and               *)
(* src/services/llm.js): the conversation store, the sendMessage /         *)
(* agentLoop turn, callLLM, parseAPIResponse and executeTool.              *)
(*                                                                         *)
(* Granularity: one action per block of JavaScript that runs between two   *)
(* awaits.  The promises a turn waits on (the provider fetch, the tool     *)
(* handlers) settle in their own actions, in any order, and user events    *)
(* may run between any two of them.                                        *)
(***************************************************************************)
EXTENDS Integers, Sequences, FiniteSets, TLC

\* ---------------------------------------------------------------- bounds
\* sendMessage invocations (accepted or rejected) in one behaviour
MaxSubmits == 2
\* loadConversation clicks in one behaviour
MaxSwitches == 1
\* provider responses that request tools, in one behaviour
MaxToolBatches == 5
\* clearConversationMessages invocations in one behaviour
MaxClears == 1
\* user events (submissions, clears, switches) in one behaviour of FairSpec
MaxFairEvents == 2
\* user events of every kind in one behaviour of StoreSpec
MaxStoreEvents == 3
\* clock readings after boot in one behaviour of StoreSpec
MaxTicks == 1
\* provider responses that request tools, in one behaviour of StoreSpec
MaxStoreToolBatches == 1
\* settings-form events (open, provider change, key edit) in one behaviour of ModelSpec
MaxModelEvents == 3
\* sendMessage invocations in one behaviour of ModelSpec
MaxModelSubmits == 1

\* ------------------------------------------------------------- JS values
\* A dynamically typed JavaScript value: null/undefined, a string, an object.
JNull == [t |-> "null"]
JStr(s) == [t |-> "string", v |-> s]
JObj(r) == [t |-> "object", v |-> r]
IsString(x) == x.t = "string"
\* JavaScript truthiness of a content or arguments value (!!x)
TruthyNever(x) == FALSE
Truthy(x) == x # JNull /\ x # JStr("")
Has(r, f) == f \in DOMAIN r
EmptyObject == [f \in {} |-> ""]
NonEmptyListNoLength(r, f) == Has(r, f)
NonEmptyList(r, f) == Has(r, f) /\ Len(r[f]) > 0

\* No conversation selected (currentConversationId: null)
NoConv == -1
\* No function has been called on its own yet (UnitSpec)
NoCall == [op |-> "none"]
\* contextMenu.dataset.messageId: '' (no message selected), and 'undefined',
\* the dataset value of the element of a message that has no id
NoMessage == 0
UndefinedMessageId == -1

VARIABLES
    now,                      \* Date.now()
    conversations,            \* state.conversations: id -> conversation
    currentConversationId,    \* state.currentConversationId
    isProcessing,             \* state.isProcessing
    userInput,                \* elements.userInput.value
    settings,                 \* state.settings (llm.provider, llm.apiKey, advanced.autoSave)
    storage,                  \* localStorage['agentflow_conversations']
    toasts,                   \* notifications shown by showToast, in order
    turns,                    \* one record per started sendMessage/agentLoop control flow
    submits,                  \* number of sendMessage invocations so far
    clears,                   \* number of clearConversationMessages invocations so far
    switches,                 \* number of loadConversation clicks so far
    toolResponses,            \* number of provider responses that requested tools so far
    lastSubmission,           \* how the latest sendMessage invocation went (history)
    unitCall,                 \* UnitSpec: the function called last and its arguments
    unitResult,               \* UnitSpec: what that call returned
    contextMessageId,         \* elements.contextMenu.dataset.messageId
    storeEvents,              \* number of new-chat, upload and context-menu events so far
    settingsOpen,             \* the settings modal has been opened (its form is populated)
    formProvider,             \* value of the #llm-provider select
    formApiKey,               \* value of the #api-key input
    modelSelect,              \* the #model-name select: what it shows, disabled or not
    modelCache,               \* this.cache: provider -> model list
    listings,                 \* updateModelOptions calls waiting for their fetch
    llmModel,                 \* state.settings.llm.model
    debounceTimer,            \* the timeout of debouncedUpdateModelOptions is pending
    lastListing,              \* how the updateModelOptions call that completed last went (history)
    modelEvents               \* number of settings-form events so far

vars == <<now, conversations, currentConversationId, isProcessing, userInput,
          settings, storage, toasts, turns, submits, clears, switches, toolResponses,
          lastSubmission, unitCall, unitResult, contextMessageId, storeEvents,
          settingsOpen, formProvider, formApiKey, modelSelect, modelCache, listings,
          llmModel, debounceTimer, lastListing, modelEvents>>
unit == <<unitCall, unitResult>>
menu == <<contextMessageId, storeEvents>>
models == <<settingsOpen, formProvider, formApiKey, modelSelect, modelCache, listings,
            llmModel, debounceTimer, lastListing, modelEvents>>
offTurn == <<unit, menu, models>>
offStore == <<unit, models>>
appState == <<now, conversations, currentConversationId, isProcessing, userInput,
              settings, storage, toasts, turns, submits, clears, switches, toolResponses,
              lastSubmission, menu, models>>

\* ------------------------------------------------------- program constants
\* this.cache = new Map()
NoModels == [k \in {} |-> <<>>]
\* DEFAULTS.llm.model
DefaultModel == "default"
\* agentLoop: let maxTurns = 5
maxTurnsInitial == 5
\* the clock reading at which boot (init) ran
BootTime == 3

\* ===================================================================
\* Provider adapter
\* ===================================================================
SupportedProviders == {"openai", "google", "aipipe"}

DemoContent == "Demo response: provide an API key in settings to use real models."
\* callLLM, demo fallback: { choices: [{ message: { content: '...' } }] }
DemoPayload == [choices |-> <<[message |-> [content |-> JStr(DemoContent)]]>>]

\* A promise as the code awaiting it sees it.
Pending == [state |-> "pending"]
Resolved(v) == [state |-> "resolved", value |-> v]
Rejected(e) == [state |-> "rejected", error |-> e]

\* ---- message normalization: the head of callLLM
\* JSON.stringify(m.content) of a content that is not a string; undefined
\* (no content member) stays undefined, which is falsy
JSONstringifyContent(m) ==
    IF ~Has(m, "content") THEN JNull
    ELSE CASE m.content = JNull -> JStr("null")
           [] m.content = JObj([text |-> "hi"]) -> JStr("{\"text\":\"hi\"}")
           [] OTHER -> JStr("{}")
\* content: typeof m.content === 'string' ? m.content : JSON.stringify(m.content)
serializedContent(m) ==
    IF Has(m, "content") /\ IsString(m.content) THEN m.content ELSE JSONstringifyContent(m)
\* the callback of .map: a tool message is sent as a system message
normalizeKeepsToolRole(m) == [role |-> m.role, content |-> serializedContent(m)]
normalize(m) ==
    [role |-> IF m.role = "tool" THEN "system" ELSE m.role, content |-> serializedContent(m)]
\* conversation.messages.map(...).filter((m) => !!m.content)
messagesForApi(messages) ==
    SelectSeq([i \in 1..Len(messages) |-> normalize(messages[i])],
              LAMBDA m : Truthy(m.content))
\* body.messages of the request, per provider (the switch of callLLM)
requestMessages(provider, msgs) ==
    IF provider = "google"
    THEN [i \in 1..Len(msgs) |->
            [role |-> IF msgs[i].role = "assistant" THEN "model" ELSE "user",
             content |-> msgs[i].content]]
    ELSE msgs

\* callLLM up to its first await: the provider / apiKey checks and the
\* provider switch.  Pending means fetch() was started.
callLLMWithoutDemo(llm) ==
    IF llm.provider = "" THEN Rejected("No LLM provider configured.")
    ELSE IF llm.provider \notin SupportedProviders
         THEN Rejected("Unsupported provider: " \o llm.provider)
    ELSE Pending
callLLMNoProviderCheck(llm) ==
    IF llm.provider = "" THEN Rejected("No LLM provider configured.")
    ELSE IF llm.apiKey = "" THEN Resolved(DemoPayload)
    ELSE Pending
callLLMfetchless(llm) ==
    IF llm.provider = "" THEN Rejected("No LLM provider configured.")
    ELSE IF llm.apiKey = "" THEN Resolved(DemoPayload)
    ELSE IF llm.provider \notin SupportedProviders
         THEN Rejected("Unsupported provider: " \o llm.provider)
    ELSE Pending

callLLM(llm) == callLLMfetchless(llm)

\* Tool calls a provider response may carry.
tcSearch == [id |-> "call_1",
             function |-> [name |-> "web_search", arguments |-> JStr("{\"query\":\"tla\"}")]]
tcUnknown == [id |-> "call_2", function |-> [name |-> "foo", arguments |-> JStr("{}")]]
\* top-level arguments that parse to null: the handler's destructuring throws
tcNullArgs == [id |-> "call_3", function |-> [name |-> "execute_code"],
               arguments |-> JStr("null")]
\* an entry without a function member
tcNoFunction == [id |-> "call_4"]

\* Response bodies (resp.json()) the provider may send with a 2xx status.
PayloadText == [choices |-> <<[message |-> [content |-> JStr("hi")]]>>]
PayloadEmpty == [choices |-> <<[message |-> [content |-> JStr("")]]>>]
PayloadTextTools ==
    [choices |-> <<[message |-> [content |-> JStr("hi"), tool_calls |-> <<tcSearch, tcUnknown>>]]>>]
PayloadToolThrows ==
    [choices |-> <<[message |-> [content |-> JNull, tool_calls |-> <<tcSearch, tcNullArgs>>]]>>]
PayloadBadTool ==
    [choices |-> <<[message |-> [content |-> JStr("hi"), tool_calls |-> <<tcNoFunction>>]]>>]
\* null content and an empty tool_calls array
PayloadEmptyTools == [choices |-> <<[message |-> [content |-> JNull, tool_calls |-> <<>>]]>>]
PayloadNoChoices == [error |-> [message |-> "rate limited"]]
PayloadCandidates == [candidates |-> <<[content |-> JObj([parts |-> <<[text |-> "hi"]>>])]>>]

Payloads ==
    {PayloadText, PayloadTextTools, PayloadToolThrows, PayloadBadTool, PayloadEmptyTools, JNull}

\* What the fetch of callLLM ends in: a body, or the Error callLLM rethrows.
\* (the source's em dash is written "-" here)
HttpErrorText ==
    "Model not supported for your API key - change model in settings. (Status: 401, Details: Incorrect API key)"
FetchOutcomes ==
    {Resolved(d) : d \in Payloads} \cup {Rejected(HttpErrorText)}
RequestsTools(outcome) ==
    /\ outcome.state = "resolved"
    /\ outcome.value # JNull
    /\ NonEmptyList(outcome.value, "choices")
    /\ Has(outcome.value.choices[1], "message")
    /\ NonEmptyList(outcome.value.choices[1].message, "tool_calls")

\* JSON.stringify of a response body that has neither choices nor candidates
JSONstringifyData(data) ==
    CASE data = PayloadNoChoices -> "{\"error\":{\"message\":\"rate limited\"}}"
      [] data = [choices |-> <<>>] -> "{\"choices\":[]}"
      [] data = [candidates |-> <<>>] -> "{\"candidates\":[]}"
      [] OTHER -> "{}"

\* parts.map((p) => p.text || p).join('')
RECURSIVE JoinParts(_)
JoinParts(parts) ==
    IF parts = <<>> THEN ""
    ELSE (IF Has(Head(parts), "text") /\ Head(parts).text # ""
          THEN Head(parts).text ELSE "[object Object]") \o JoinParts(Tail(parts))

ParseError == [ok |-> FALSE, error |-> "Could not parse the API response."]
Parsed(v) == [ok |-> TRUE, value |-> v]

\* the openai / aipipe branch
parseChoicesSkipsCandidates(data) ==
    IF NonEmptyList(data, "choices")
    THEN LET c == data.choices[1]
         IN IF Has(c, "message") THEN Parsed(c.message)
            ELSE Parsed([content |-> JStr(IF Has(c, "text") THEN c.text ELSE "")])
    ELSE Parsed([content |-> JStr(JSONstringifyData(data))])
parseChoices(data) ==
    IF NonEmptyList(data, "choices")
    THEN LET c == data.choices[1]
         IN IF Has(c, "message") THEN Parsed(c.message)
            ELSE Parsed([content |-> JStr(IF Has(c, "text") THEN c.text ELSE "")])
    ELSE IF NonEmptyList(data, "candidates")
    THEN LET cand == data.candidates[1]
         IN IF ~Has(cand, "content") \/ ~Truthy(cand.content)
            THEN Parsed([content |-> JStr("")])
            ELSE IF IsString(cand.content) THEN Parsed([content |-> cand.content])
            ELSE IF Has(cand.content.v, "parts")
                 THEN Parsed([content |-> JStr(JoinParts(cand.content.v.parts))])
            ELSE Parsed([content |-> cand.content])
    ELSE Parsed([content |-> JStr(JSONstringifyData(data))])

\* the google branch: data.candidates[0].content.parts[0].text
parseCandidates(data) ==
    IF NonEmptyList(data, "candidates")
    THEN LET cand == data.candidates[1]
         IN IF ~Has(cand, "content") \/ cand.content.t # "object" THEN ParseError
            ELSE IF ~Has(cand.content.v, "parts") \/ cand.content.v.parts = <<>>
                 THEN ParseError
            ELSE LET p == cand.content.v.parts[1]
                 IN Parsed([content |-> IF Has(p, "text") THEN JStr(p.text) ELSE JNull])
    ELSE Parsed([content |-> JStr(JSONstringifyData(data))])

parseAPIResponse(data, provider) ==
    IF provider \in {"openai", "aipipe"}
    THEN (IF data = JNull THEN ParseError ELSE parseChoices(data))
    ELSE IF provider = "google"
    THEN (IF data = JNull THEN ParseError ELSE parseCandidates(data))
    ELSE Parsed([content |-> JStr("Response format not recognized.")])

\* ===================================================================
\* Tool executor
\* ===================================================================
\* JSON.parse of an arguments string
JSONparse(s) ==
    CASE s = "{}" -> Parsed(JObj(EmptyObject))
      [] s = "{\"query\":\"tla\"}" -> Parsed(JObj([query |-> "tla"]))
      [] s = "null" -> Parsed(JNull)
      [] OTHER -> [ok |-> FALSE, error |-> "Unexpected token"]

\* const name = func.name || func?.name || 'unknown'
toolName(toolCall) ==
    LET func == IF Has(toolCall, "function") THEN toolCall.function ELSE EmptyObject
    IN IF Has(func, "name") /\ func.name # "" THEN func.name ELSE "unknown"

\* let args = {}; try { if (toolCall.arguments) args = ... } catch { args = {} }
toolArgs(toolCall) ==
    IF Has(toolCall, "arguments") /\ Truthy(toolCall.arguments)
    THEN IF IsString(toolCall.arguments)
         THEN LET p == JSONparse(toolCall.arguments.v)
              IN IF p.ok THEN p.value ELSE JObj(EmptyObject)
         ELSE toolCall.arguments
    ELSE JObj(EmptyObject)

\* `${x}` of a destructured property
Prop(args, f) == IF Has(args.v, f) THEN args.v[f] ELSE "undefined"

\* executeWebSearch, executeCode, processFile, createVisualization: a handler
\* destructures its argument, which throws a TypeError on null.
Destructure(args, first, result) ==
    IF args = JNull
    THEN Rejected("Cannot destructure property '" \o first \o "' of 'object null' as it is null.")
    ELSE Resolved(result)

executeWebSearch(args) ==
    Destructure(args, "query",
        [status |-> "Simulated search for: " \o Prop(args, "query"), items |-> <<>>])
executeCode(args) ==
    Destructure(args, "code", [output |-> "Simulated execution of: " \o Prop(args, "code")])
processFile(args) ==
    Destructure(args, "fileId",
        [result |-> "Simulated " \o Prop(args, "operation") \o " on file " \o Prop(args, "fileId")])
createVisualization(args) ==
    Destructure(args, "data",
        [chartUrl |-> "Simulated " \o Prop(args, "type") \o " chart titled \"" \o Prop(args, "title") \o "\""])

\* the switch of executeTool: what the promise executeTool returns settles to
toolDispatchUnknownThrows(name, args) ==
    CASE name = "web_search" -> executeWebSearch(args)
      [] name = "execute_code" -> executeCode(args)
      [] name = "process_file" -> processFile(args)
      [] name = "create_visualization" -> createVisualization(args)
      [] OTHER -> Rejected("Unknown tool: " \o name)
toolDispatch(name, args) ==
    CASE name = "web_search" -> executeWebSearch(args)
      [] name = "execute_code" -> executeCode(args)
      [] name = "process_file" -> processFile(args)
      [] name = "create_visualization" -> createVisualization(args)
      [] OTHER -> Resolved([error |-> "Unknown tool: " \o name])

\* JSON.stringify of a tool result
JSONstringify(result) ==
    CASE Has(result, "status") -> "{\"status\":\"" \o result.status \o "\",\"items\":[]}"
      [] Has(result, "output") -> "{\"output\":\"" \o result.output \o "\"}"
      [] Has(result, "result") -> "{\"result\":\"" \o result.result \o "\"}"
      [] Has(result, "chartUrl") -> "{\"chartUrl\":\"" \o result.chartUrl \o "\"}"
      [] Has(result, "error") -> "{\"error\":\"" \o result.error \o "\"}"
      [] OTHER -> "{}"


\* ===================================================================
\* Conversation store
\* ===================================================================
\* The operators below thread a record w through the statements of a
\* handler: w.convs is state.conversations, w.cur is
\* state.currentConversationId, and w.appended (history only) lists, in
\* order, every message the running handler appended and to which conversation.

\* const message = { id: `msg_${Date.now()}`, role, content, timestamp: Date.now() }
newMessage(role, content) == [id |-> now, role |-> role, content |-> content, timestamp |-> now]

\* conversation.messages.push(message)
\* agentLoop pushes on the conversation object it fetched from the map when
\* it started; once createNewConversation has put another object under the
\* same id (w.detached), the push goes to an object the map no longer holds.
pushFront(w, convId, message) ==
    [w EXCEPT !.convs[convId].messages = <<message>> \o @,
              !.appended = Append(@, [conv |-> convId, msg |-> message])]
push(w, convId, message) ==
    IF w.detached
    THEN [w EXCEPT !.appended = Append(@, [conv |-> NoConv, msg |-> message])]
    ELSE [w EXCEPT !.convs[convId].messages = Append(@, message),
                   !.appended = Append(@, [conv |-> convId, msg |-> message])]
\* conversation.messages.push(message) of addMessage, which looks the
\* conversation up in the map
pushToMap(w, convId, message) ==
    [push([w EXCEPT !.detached = FALSE], convId, message) EXCEPT !.detached = w.detached]

addMessage(w, role, content, conversationId) ==
    LET convId == IF conversationId # NoConv THEN conversationId ELSE w.cur
    IN IF convId = NoConv \/ convId \notin DOMAIN w.convs \/ content = JNull THEN w
       ELSE LET w1 == pushToMap(w, convId, newMessage(role, content))
            IN IF role # "system" /\ IsString(content)
               THEN [w1 EXCEPT !.convs[convId].updatedAt = now]
               ELSE w1

\* loadConversation(id): selects the conversation (the rest is rendering)
loadConversationId(w, id) == IF id = NoConv THEN w ELSE [w EXCEPT !.cur = id]

\* createNewConversation: the id is `conv_${Date.now()}`; Map.set replaces an
\* entry that has the same id.  The new conversation becomes the current one.
createNewConversation(w) ==
    LET id == now
        convObj == [id |-> id, messages |-> <<>>, createdAt |-> now, updatedAt |-> now]
    IN loadConversationId(
         [w EXCEPT !.convs = [k \in DOMAIN w.convs \cup {id} |->
                                 IF k = id THEN convObj ELSE w.convs[k]]],
         id)

\* localStorage: absent, or the text JSON.stringify(Array.from(conversations.entries()))
NoStorage == [present |-> FALSE]
serializeConversations(convs) ==
    [present |-> TRUE, entries |-> {<<k, convs[k]>> : k \in DOMAIN convs}]

saveCurrentConversationAlways(store, convs) == serializeConversations(convs)
saveCurrentConversation(store, convs) ==
    IF settings.advanced.autoSave THEN serializeConversations(convs) ELSE store

\* loadConversationHistory and showWelcomeMessage, as run by init()
WelcomeText == "Welcome to LeafAI! How can I assist you?"
EmptyWorld == [convs |-> [k \in {} |-> 0], cur |-> NoConv, appended |-> <<>>,
               detached |-> FALSE]

\* conv.updatedAt = conv.updatedAt || conv.createdAt || Date.now();
\* conv.messages = conv.messages || []
reviveStampsUpdatedAt(conv) ==
    [f \in DOMAIN conv \cup {"updatedAt", "messages"} |->
        IF f = "updatedAt" THEN now
        ELSE IF f = "messages" THEN (IF Has(conv, "messages") THEN conv.messages ELSE <<>>)
        ELSE conv[f]]
revive(conv) ==
    [f \in DOMAIN conv \cup {"updatedAt", "messages"} |->
        IF f = "updatedAt"
        THEN (IF Has(conv, "updatedAt") /\ conv.updatedAt # 0 THEN conv.updatedAt
              ELSE IF Has(conv, "createdAt") /\ conv.createdAt # 0 THEN conv.createdAt
              ELSE now)
        ELSE IF f = "messages" THEN (IF Has(conv, "messages") THEN conv.messages ELSE <<>>)
        ELSE conv[f]]

loadConversationHistory(store) ==
    IF store.present /\ store.entries # {}
    THEN LET ids == {e[1] : e \in store.entries}
             convs == [k \in ids |-> revive((CHOOSE e \in store.entries : e[1] = k)[2])]
             recent == CHOOSE k \in ids : \A j \in ids : convs[j].updatedAt <= convs[k].updatedAt
         IN loadConversationId([EmptyWorld EXCEPT !.convs = convs], recent)
    ELSE createNewConversation(EmptyWorld)

showWelcomeMessage(w) ==
    IF w.cur \in DOMAIN w.convs /\ w.convs[w.cur].messages = <<>>
    THEN addMessage(w, "assistant", JStr(WelcomeText), NoConv)
    ELSE w


\* ===================================================================
\* Agent turn: sendMessage and agentLoop
\* ===================================================================
\* Text the user may have in the composer, and String.prototype.trim on it.
Inputs == {" hi "}
Trim(s) == CASE s = " " -> "" [] s = " hi " -> "hi" [] OTHER -> s

\* A turn record is the control flow of one accepted sendMessage:
\*   pc         "awaitLLM" (await callLLM), "awaitTools" (await Promise.all), "done"
\*   convId     agentLoop's conversationId;  maxTurns  agentLoop's counter
\*   llm        the promise of the callLLM in flight
\*   tool_calls response.tool_calls of the batch in flight
\*   promises   the promises executeTool returned for them;  settled: the
\*              indices whose promise has settled, in the order they settled
\* and, as history of the turn: calls (callLLM invocations), exit (which way
\* the loop ended), failedAtCall (value of calls when the catch ran),
\* appended (see the conversation store), batches (one record per tool
\* batch: its tool_calls, ok, and from/to delimiting what the tool step
\* appended within `appended`), input and logBefore (the submitted text and
\* the log of convId before it), disturbed (the user cleared convId's log
\* since the turn began), toastsBefore (Len(toasts) at the start), responses
\* (what each callLLM of the turn settled to), error (the err the catch got),
\* prevExit (the exit of the turn that ended before this one began, if any),
\* fetches (the callLLM invocations of the turn that started a fetch).
newTurn(convId, input, logBefore) ==
    [pc |-> "start", convId |-> convId, maxTurns |-> maxTurnsInitial, llm |-> Pending,
     tool_calls |-> <<>>, promises |-> <<>>, settled |-> <<>>,
     calls |-> 0, exit |-> "", failedAtCall |-> 0, appended |-> <<>>, batches |-> <<>>,
     input |-> input, logBefore |-> logBefore, disturbed |-> FALSE, detached |-> FALSE,
     toastsBefore |-> Len(toasts), responses |-> <<>>, error |-> "",
     prevExit |-> IF turns = <<>> THEN "" ELSE turns[Len(turns)].exit,
     fetches |-> 0]

\* while (maxTurns-- > 0)
loopConditionOffByOne(maxTurns) == maxTurns >= 0
loopCondition(maxTurns) == maxTurns > 0

\* The head of the while loop, up to `await this.callLLM(conversation)`.
agentLoopWhileBudgetIsError(w, turn) ==
    IF loopCondition(turn.maxTurns)
    THEN [w |-> w,
          turn |-> [turn EXCEPT !.maxTurns = @ - 1, !.pc = "awaitLLM",
                                !.llm = callLLM(settings.llm), !.calls = @ + 1,
                                !.fetches = IF callLLM(settings.llm) = Pending
                                            THEN @ + 1 ELSE @]]
    ELSE [w |-> addMessage(w, "system", JStr("Agent iteration error: budget exhausted"),
                           turn.convId),
          turn |-> [turn EXCEPT !.maxTurns = @ - 1, !.pc = "done", !.exit = "error"]]
agentLoopWhile(w, turn) ==
    IF loopCondition(turn.maxTurns)
    THEN [w |-> w,
          turn |-> [turn EXCEPT !.maxTurns = @ - 1, !.pc = "awaitLLM",
                                !.llm = callLLM(settings.llm), !.calls = @ + 1,
                                !.fetches = IF callLLM(settings.llm) = Pending
                                            THEN @ + 1 ELSE @]]
    ELSE [w |-> w, turn |-> [turn EXCEPT !.maxTurns = @ - 1, !.pc = "done", !.exit = "budget"]]

\* catch (err) { addMessage('system', `Agent iteration error: ...`); break; }
IterationError(e) == JStr("Agent iteration error: " \o e)
agentLoopCatchContinues(w, turn, err) ==
    agentLoopWhile(addMessage(w, "system", IterationError(err), turn.convId),
                   [turn EXCEPT !.failedAtCall = turn.calls])
agentLoopCatch(w, turn, err) ==
    [w |-> addMessage(w, "system", IterationError(err), turn.convId),
     turn |-> [turn EXCEPT !.pc = "done", !.exit = "error", !.failedAtCall = turn.calls,
                           !.error = err]]

\* response.tool_calls.map((tc) => tc.function.name).join(', ')
RECURSIVE JoinNames(_)
JoinNames(tcs) ==
    IF tcs = <<>> THEN ""
    ELSE (IF Has(Head(tcs).function, "name") THEN Head(tcs).function.name ELSE "")
         \o (IF Len(tcs) > 1 THEN ", " ELSE "") \o JoinNames(Tail(tcs))

\* executeTool up to its first await, for each call in order (the map of
\* Promise.all): the 'Executing tool' note goes to the CURRENT conversation.
RECURSIVE executeToolNotes(_, _)
executeToolNotes(w, tcs) ==
    IF tcs = <<>> THEN w
    ELSE executeToolNotes(
           addMessage(w, "system", JStr("Executing tool: " \o toolName(Head(tcs))), w.cur),
           Tail(tcs))

\* the promise executeTool(toolCall) returns
executeToolStrictParse(toolCall) ==
    IF Has(toolCall, "arguments") /\ IsString(toolCall.arguments)
       /\ toolCall.arguments.v # "" /\ ~JSONparse(toolCall.arguments.v).ok
    THEN Rejected(JSONparse(toolCall.arguments.v).error)
    ELSE toolDispatch(toolName(toolCall), toolArgs(toolCall))
executeTool(toolCall) == toolDispatch(toolName(toolCall), toolArgs(toolCall))

\* if (response.tool_calls && response.tool_calls.length > 0) { ... up to
\* `await Promise.all(...)`
toolStep(w, turn, tcs) ==
    IF \E i \in 1..Len(tcs) : ~Has(tcs[i], "function")
    THEN agentLoopCatch(w, turn, "Cannot read properties of undefined (reading 'name')")
    ELSE LET w1 == addMessage(w, "assistant", JStr("Using tools: " \o JoinNames(tcs)), turn.convId)
             w2 == push(w1, turn.convId, [role |-> "assistant", content |-> JNull, tool_calls |-> tcs])
             w3 == executeToolNotes(w2, tcs)
         IN [w |-> w3,
             turn |-> [turn EXCEPT !.pc = "awaitTools", !.tool_calls = tcs,
                                   !.promises = [i \in 1..Len(tcs) |-> executeTool(tcs[i])],
                                   !.settled = <<>>,
                                   !.batches = Append(@, [tool_calls |-> tcs, ok |-> FALSE,
                                                          from |-> Len(w.appended),
                                                          to |-> Len(w3.appended)])]]

\* The rest of an iteration once callLLM has settled with `outcome`.
afterCallLLM(w, turn, outcome) ==
    IF outcome.state = "rejected" THEN agentLoopCatch(w, turn, outcome.error)
    ELSE LET p == parseAPIResponse(outcome.value, settings.llm.provider)
         IN IF ~p.ok THEN agentLoopCatch(w, turn, p.error)
            ELSE LET response == p.value
                     w1 == IF Has(response, "content") /\ Truthy(response.content)
                           THEN addMessage(w, "assistant", response.content, turn.convId)
                           ELSE w
                 IN IF NonEmptyList(response, "tool_calls")
                    THEN toolStep(w1, turn, response.tool_calls)
                    ELSE [w |-> w1, turn |-> [turn EXCEPT !.pc = "done", !.exit = "done"]]

\* toolResults.forEach((result, index) => { push({role:'tool',...}); addMessage('tool', ...) })
RECURSIVE appendToolResults(_, _, _)
appendToolResultsAsCompleted(w, turn, index) ==
    IF index > Len(turn.tool_calls) THEN w
    ELSE LET done == turn.settled[index]
             content == JStr(JSONstringify(turn.promises[done].value))
             w1 == push(w, turn.convId,
                        [role |-> "tool", tool_call_id |-> turn.tool_calls[done].id,
                         name |-> turn.tool_calls[done].function.name,
                         content |-> content])
             w2 == addMessage(w1, "tool", content, turn.convId)
         IN appendToolResults(w2, turn, index + 1)
appendToolResults(w, turn, index) ==
    IF index > Len(turn.tool_calls) THEN w
    ELSE LET content == JStr(JSONstringify(turn.promises[index].value))
             w1 == push(w, turn.convId,
                        [role |-> "tool", tool_call_id |-> turn.tool_calls[index].id,
                         name |-> turn.tool_calls[index].function.name,
                         content |-> content])
             w2 == addMessage(w1, "tool", content, turn.convId)
         IN appendToolResults(w2, turn, index + 1)

Range(seq) == {seq[i] : i \in 1..Len(seq)}
AllSettled(turn) == Range(turn.settled) = 1..Len(turn.promises)
RejectedSettled(turn) == {k \in 1..Len(turn.settled) : turn.promises[turn.settled[k]].state = "rejected"}
\* Promise.all is settled: rejected by the first rejection, or fulfilled by all.
PromiseAllSettled(turn) == RejectedSettled(turn) # {} \/ AllSettled(turn)

\* The continuation of `await Promise.all(...)`.
afterPromiseAllErrorsAsData(w, turn) ==
    LET asData == [i \in 1..Len(turn.promises) |->
                     IF turn.promises[i].state = "rejected"
                     THEN Resolved([error |-> turn.promises[i].error])
                     ELSE turn.promises[i]]
        turn1 == [turn EXCEPT !.promises = asData]
        w1 == appendToolResults(w, turn1, 1)
        n == Len(turn.batches)
    IN agentLoopWhile(w1, [turn1 EXCEPT !.batches[n].ok = TRUE,
                                        !.batches[n].to = Len(w1.appended)])
afterPromiseAll(w, turn) ==
    IF RejectedSettled(turn) # {}
    THEN LET k == CHOOSE k \in RejectedSettled(turn) : \A j \in RejectedSettled(turn) : k <= j
         IN agentLoopCatch(w, turn, turn.promises[turn.settled[k]].error)
    ELSE LET w1 == appendToolResults(w, turn, 1)
             n == Len(turn.batches)
         IN agentLoopWhile(w1, [turn EXCEPT !.batches[n].ok = TRUE,
                                            !.batches[n].to = Len(w1.appended)])

\* agentLoop(conversationId) up to its first await
agentLoop(w, turn) ==
    IF turn.convId \notin DOMAIN w.convs
    THEN [w |-> w, turn |-> [turn EXCEPT !.pc = "done", !.exit = "noconversation"]]
    ELSE agentLoopWhile(w, turn)

\* if (!input || this.state.isProcessing) return;
sendMessageIgnoresProcessing(input, processing) == input = ""
sendMessageReturnsEarly(input, processing) == input = "" \/ processing


\* ===================================================================
\* Initial state: the application after init() has run
\* ===================================================================
\* settings after loadSettings: the DEFAULTS (aipipe, no key: demo mode), a
\* stored key with auto-save on or off, a stored empty provider, and a
\* provider the settings form offers but callLLM does not support.
SettingsChoices ==
    {[llm |-> [provider |-> "aipipe", apiKey |-> ""], advanced |-> [autoSave |-> TRUE]],
     [llm |-> [provider |-> "openai", apiKey |-> "sk-test"], advanced |-> [autoSave |-> TRUE]],
     [llm |-> [provider |-> "openai", apiKey |-> "sk-test"], advanced |-> [autoSave |-> FALSE]],
     [llm |-> [provider |-> "", apiKey |-> "sk-test"], advanced |-> [autoSave |-> TRUE]],
     [llm |-> [provider |-> "anthropic", apiKey |-> "sk-test"], advanced |-> [autoSave |-> TRUE]]}

\* localStorage at boot: nothing, or two conversations of earlier sessions
\* (ids are the clock readings at which they were created).
StoredHistory ==
    serializeConversations(
        [k \in {1, 2} |->
            IF k = 1
            THEN [id |-> 1, messages |-> <<>>, createdAt |-> 1, updatedAt |-> 1]
            ELSE [id |-> 2, createdAt |-> 2, updatedAt |-> 2,
                  messages |-> <<[id |-> 2, role |-> "user", content |-> JStr("old"),
                                  timestamp |-> 2]>>]])
StorageChoices == {NoStorage, StoredHistory}
\* The boots explored: every pairing, except that a session with auto-save
\* off starts from an empty store.
BootChoices ==
    {b \in [settings : SettingsChoices, storage : StorageChoices] :
        b.settings.advanced.autoSave \/ b.storage = NoStorage}

Init ==
    /\ now = BootTime
    /\ \E b \in BootChoices : settings = b.settings /\ storage = b.storage
    /\ LET w == showWelcomeMessage(loadConversationHistory(storage))
       IN /\ conversations = w.convs
          /\ currentConversationId = w.cur
    /\ isProcessing = FALSE
    /\ userInput = ""
    /\ toasts = <<>>
    /\ turns = <<>>
    /\ submits = 0
    /\ clears = 0
    /\ switches = 0
    /\ toolResponses = 0
    /\ lastSubmission = "none"
    /\ unitCall = NoCall
    /\ unitResult = NoCall
    /\ contextMessageId = NoMessage
    /\ storeEvents = 0
    /\ settingsOpen = FALSE
    /\ formProvider = ""
    /\ formApiKey = ""
    /\ modelSelect = [shows |-> "nothing", options |-> <<>>, provider |-> "", disabled |-> FALSE]
    /\ modelCache = NoModels
    /\ listings = <<>>
    /\ llmModel = DefaultModel
    /\ debounceTimer = FALSE
    /\ lastListing = NoCall
    /\ modelEvents = 0

\* ===================================================================
\* Actions
\* ===================================================================
\* the user types a text into the empty composer
typeInput ==
    /\ userInput = ""
    /\ \E s \in Inputs : s # userInput /\ userInput' = s
    /\ UNCHANGED offTurn
    /\ UNCHANGED <<now, conversations, currentConversationId, isProcessing,
                   settings, storage, toasts, turns, submits, clears, switches,
                   toolResponses, lastSubmission>>

\* the user clicks a conversation in the sidebar: loadConversation(id)
loadConversation ==
    /\ switches < MaxSwitches
    /\ switches' = switches + 1
    /\ UNCHANGED offTurn
    /\ \E id \in DOMAIN conversations :
          /\ id # currentConversationId
          /\ currentConversationId' = id
    /\ UNCHANGED <<now, conversations, isProcessing, userInput,
                   settings, storage, toasts, turns, submits, clears,
                   toolResponses, lastSubmission>>

\* What a block of turn t did (r.w, r.turn), written to the state; t = 0 is
\* the turn a sendMessage starts, which takes the place of the records of the
\* turns that have ended.  `processing` is isProcessing as the block leaves it.  A turn whose
\* agentLoop has returned runs the rest of sendMessage:
\*   catch (error) { addMessage('system', ...); showToast('error', 'Agent Error', ...) }
\*   finally { isProcessing = false; ...; saveCurrentConversation() }
\* agentLoop catches inside its loop and throws nothing, so exit is never "thrown".
StillRunning(turn) == turn.pc # "done"
sendMessageRestWithoutFinally(t, r, processing) ==
    /\ conversations' = r.w.convs
    /\ currentConversationId' = r.w.cur
    /\ turns' = IF t = 0 THEN Append(SelectSeq(turns, StillRunning), r.turn)
                ELSE [turns EXCEPT ![t] = [r.turn EXCEPT !.appended = r.w.appended]]
    /\ isProcessing' = processing
    /\ UNCHANGED <<toasts, storage>>
sendMessageRest(t, r, processing) ==
    LET thrown == r.turn.pc = "done" /\ r.turn.exit = "thrown"
        w == IF thrown
             THEN addMessage(r.w, "system", JStr("An error occurred: agent loop"), r.turn.convId)
             ELSE r.w
        tr == [r.turn EXCEPT !.appended = w.appended]
    IN /\ conversations' = w.convs
       /\ currentConversationId' = w.cur
       /\ turns' = IF t = 0 THEN Append(SelectSeq(turns, StillRunning), tr)
                   ELSE [turns EXCEPT ![t] = tr]
       /\ toasts' = IF thrown THEN Append(toasts, [type |-> "error", title |-> "Agent Error"])
                    ELSE toasts
       /\ isProcessing' = IF r.turn.pc = "done" THEN FALSE ELSE processing
       /\ storage' = IF r.turn.pc = "done" THEN saveCurrentConversation(storage, w.convs)
                     ELSE storage

World(t) == [convs |-> conversations, cur |-> currentConversationId,
             appended |-> turns[t].appended, detached |-> turns[t].detached]

\* the send button, Enter in the composer, a quick action or the command bar
sendMessage ==
    /\ submits < MaxSubmits
    /\ submits' = submits + 1
    /\ UNCHANGED offTurn
    /\ LET input == Trim(userInput)
       IN IF sendMessageReturnsEarly(input, isProcessing)
          THEN /\ lastSubmission' = IF input = "" THEN "empty" ELSE "busy"
               /\ UNCHANGED <<now, conversations, currentConversationId, isProcessing,
                              userInput, settings, storage, toasts, turns, clears,
                              switches, toolResponses>>
          ELSE LET w0 == [convs |-> conversations, cur |-> currentConversationId,
                          appended |-> <<>>, detached |-> FALSE]
                   w1 == IF w0.cur # NoConv THEN w0 ELSE createNewConversation(w0)
                   convId == w1.cur
                   w2 == addMessage(w1, "user", JStr(input), convId)
                   r == agentLoop(w2, newTurn(convId, input, w1.convs[convId].messages))
               IN /\ userInput' = ""
                  /\ sendMessageRest(0, r, TRUE)
                  /\ lastSubmission' = "started"
                  /\ UNCHANGED <<now, settings, clears, switches, toolResponses>>

\* the promise of callLLM settles (the fetch ends, or callLLM had returned or
\* thrown without fetching) and the iteration runs on to its next await
callLLMSettlesWithin(maxBatches) ==
    \E t \in 1..Len(turns) :
        /\ turns[t].pc = "awaitLLM"
        /\ \E outcome \in (IF turns[t].llm.state = "pending" THEN FetchOutcomes
                           ELSE {turns[t].llm}) :
              /\ RequestsTools(outcome) => toolResponses < maxBatches
              /\ toolResponses' = IF RequestsTools(outcome) THEN toolResponses + 1
                                  ELSE toolResponses
              /\ sendMessageRest(t, afterCallLLM(World(t),
                                                 [turns[t] EXCEPT !.responses = Append(@, outcome)],
                                                 outcome),
                                  isProcessing)
        /\ UNCHANGED <<now, userInput, settings, submits, clears, switches, lastSubmission>>
        /\ UNCHANGED offTurn
callLLMSettles == callLLMSettlesWithin(MaxToolBatches)

\* the promise of one executeTool call settles; when that settles Promise.all
\* (its first rejection, or its last fulfilment) the iteration runs on to its
\* next await
executeToolSettles ==
    \E t \in 1..Len(turns) :
        /\ turns[t].pc = "awaitTools"
        /\ \E i \in 1..Len(turns[t].promises) :
              /\ i \notin Range(turns[t].settled)
              /\ LET turn == [turns[t] EXCEPT !.settled = Append(@, i)]
                 IN IF PromiseAllSettled(turn)
                    THEN sendMessageRest(t, afterPromiseAll(World(t), turn), isProcessing)
                    ELSE /\ turns' = [turns EXCEPT ![t] = turn]
                         /\ UNCHANGED <<conversations, currentConversationId, isProcessing,
                                        storage, toasts>>
        /\ UNCHANGED <<now, userInput, settings, submits, clears, switches, toolResponses,
                       lastSubmission>>
        /\ UNCHANGED offTurn

\* the clear-chat button, confirmed: conv.messages = []; loadConversation; save
clearConversationMessagesDeletes ==
    /\ clears < MaxClears
    /\ clears' = clears + 1
    /\ UNCHANGED offTurn
    /\ currentConversationId \in DOMAIN conversations
    /\ Cardinality(DOMAIN conversations) > 1
    /\ conversations' = [k \in DOMAIN conversations \ {currentConversationId} |->
                            conversations[k]]
    /\ currentConversationId' = CHOOSE k \in DOMAIN conversations' : TRUE
    /\ UNCHANGED <<now, isProcessing, userInput, settings, storage, turns,
                   toasts, submits, switches, toolResponses, lastSubmission>>
clearConversationMessages ==
    /\ clears < MaxClears
    /\ clears' = clears + 1
    /\ UNCHANGED offTurn
    /\ IF currentConversationId \notin DOMAIN conversations
       THEN UNCHANGED <<conversations, storage, turns>>
       ELSE LET convs == [conversations EXCEPT ![currentConversationId].messages = <<>>,
                                               ![currentConversationId].updatedAt = now]
            IN /\ conversations' = convs
               /\ storage' = saveCurrentConversation(storage, convs)
               /\ turns' = [t \in 1..Len(turns) |->
                              IF turns[t].convId = currentConversationId
                              THEN [turns[t] EXCEPT !.disturbed = TRUE]
                              ELSE turns[t]]
    /\ UNCHANGED <<now, currentConversationId, isProcessing, userInput, settings,
                   toasts, submits, switches, toolResponses, lastSubmission>>

Next ==
    \/ typeInput
    \/ loadConversation
    \/ sendMessage
    \/ callLLMSettles
    \/ executeToolSettles
    \/ clearConversationMessages

Spec == Init /\ [][Next]_vars

\* Every provider call and every tool execution eventually resolves or
\* rejects, and the continuation of a settled promise is eventually run by
\* the event loop.
\* FairSpec has the actions of Spec, with one joint bound on the user's events.
UserEvents == submits + clears + switches
FairNext ==
    \/ typeInput
    \/ (UserEvents < MaxFairEvents /\ loadConversation)
    \/ (UserEvents < MaxFairEvents /\ sendMessage)
    \/ callLLMSettles
    \/ executeToolSettles
    \/ (UserEvents < MaxFairEvents /\ clearConversationMessages)

FairSpec ==
    Init /\ [][FairNext]_vars /\ WF_vars(callLLMSettles) /\ WF_vars(executeToolSettles)

\* ===================================================================
\* StoreSpec: the turn together with the other writers of the store
\* ===================================================================
UserWorld == [convs |-> conversations, cur |-> currentConversationId,
              appended |-> <<>>, detached |-> FALSE]
\* the turns of conversation convId see its log changed from outside
Disturb(convId, detach) ==
    [t \in 1..Len(turns) |->
        IF turns[t].convId = convId
        THEN [turns[t] EXCEPT !.disturbed = TRUE, !.detached = @ \/ detach]
        ELSE turns[t]]

\* time passes: Date.now() reads a later value
tick ==
    /\ now < BootTime + MaxTicks
    /\ now' = now + 1
    /\ UNCHANGED <<conversations, currentConversationId, isProcessing, userInput,
                   settings, storage, toasts, turns, submits, clears, switches,
                   toolResponses, lastSubmission>>
    /\ UNCHANGED offTurn

\* the new-chat button: createNewConversation()
newChat ==
    /\ storeEvents' = storeEvents + 1
    /\ LET w == createNewConversation(UserWorld)
       IN /\ conversations' = w.convs
          /\ currentConversationId' = w.cur
          /\ turns' = IF now \in DOMAIN conversations THEN Disturb(now, TRUE) ELSE turns
    /\ UNCHANGED <<now, isProcessing, userInput, settings, storage, toasts, submits,
                   clears, switches, toolResponses, lastSubmission, contextMessageId>>
    /\ UNCHANGED offStore

\* files the user may pick or drop, one at a time
FileInputs == {[name |-> "a.txt", supported |-> TRUE], [name |-> "a.exe", supported |-> FALSE]}
\* handleFiles([file])
handleFiles ==
    /\ storeEvents' = storeEvents + 1
    /\ \E file \in FileInputs :
          IF file.supported
          THEN LET w1 == IF currentConversationId # NoConv THEN UserWorld
                         ELSE createNewConversation(UserWorld)
                   w2 == addMessage(w1, "system", JStr("File uploaded: " \o file.name), w1.cur)
               IN /\ conversations' = w2.convs
                  /\ currentConversationId' = w2.cur
                  /\ turns' = Disturb(w1.cur, FALSE)
                  /\ UNCHANGED toasts
          ELSE /\ toasts' = Append(toasts, [type |-> "warning", title |-> "Unsupported File"])
               /\ UNCHANGED <<conversations, currentConversationId, turns>>
    /\ UNCHANGED <<now, isProcessing, userInput, settings, storage, submits,
                   clears, switches, toolResponses, lastSubmission, contextMessageId>>
    /\ UNCHANGED offStore

\* messageEl.dataset.messageId of a rendered message
datasetMessageId(message) == IF Has(message, "id") THEN message.id ELSE UndefinedMessageId
\* a right click on a message of the conversation on screen: showContextMenu
showContextMenu ==
    /\ currentConversationId \in DOMAIN conversations
    /\ \E i \in 1..Len(conversations[currentConversationId].messages) :
          /\ contextMessageId' = datasetMessageId(conversations[currentConversationId].messages[i])
          /\ contextMessageId' # contextMessageId
    /\ UNCHANGED <<now, conversations, currentConversationId, isProcessing, userInput,
                   settings, storage, toasts, turns, submits, clears, switches,
                   toolResponses, lastSubmission, storeEvents>>
    /\ UNCHANGED offStore

\* conv.messages.find((m) => m.id === msgId): the index of the first match, or 0
findMessage(messages, msgId) ==
    IF \E i \in 1..Len(messages) : datasetMessageId(messages[i]) = msgId /\ Has(messages[i], "id")
    THEN CHOOSE i \in 1..Len(messages) :
            /\ Has(messages[i], "id") /\ messages[i].id = msgId
            /\ \A j \in 1..(i - 1) : ~(Has(messages[j], "id") /\ messages[j].id = msgId)
    ELSE 0
\* conv.messages.filter((m) => m.id !== msgId)
filterOut(messages, msgId) ==
    SelectSeq(messages, LAMBDA m : ~(Has(m, "id") /\ m.id = msgId))
\* msg.bookmarked = true
bookmark(message) ==
    [f \in DOMAIN message \cup {"bookmarked"} |->
        IF f = "bookmarked" THEN TRUE ELSE message[f]]

ContextActions == {"delete", "bookmark"}
\* a click on an item of the context menu: handleContextAction(action)
handleContextAction ==
    /\ storeEvents' = storeEvents + 1
    /\ \E action \in ContextActions :
          IF contextMessageId = NoMessage
          THEN /\ toasts' = Append(toasts, [type |-> "warning", title |-> "No message selected"])
               /\ UNCHANGED <<conversations, storage, turns>>
          ELSE IF currentConversationId \notin DOMAIN conversations
                  \/ findMessage(conversations[currentConversationId].messages,
                                 contextMessageId) = 0
          THEN UNCHANGED <<conversations, storage, turns, toasts>>
          ELSE LET cur == currentConversationId
                   i == findMessage(conversations[cur].messages, contextMessageId)
               IN IF action = "delete"
                  THEN LET convs == [conversations EXCEPT ![cur].messages =
                                        filterOut(@, contextMessageId)]
                       IN /\ conversations' = convs
                          /\ storage' = saveCurrentConversation(storage, convs)
                          /\ toasts' = Append(toasts, [type |-> "success", title |-> "Deleted"])
                          /\ turns' = Disturb(cur, FALSE)
                  ELSE /\ conversations' = [conversations EXCEPT ![cur].messages[i] = bookmark(@)]
                       /\ toasts' = Append(toasts, [type |-> "success", title |-> "Bookmarked"])
                       /\ turns' = Disturb(cur, FALSE)
                       /\ UNCHANGED storage
    /\ UNCHANGED <<now, currentConversationId, isProcessing, userInput, settings, submits,
                   clears, switches, toolResponses, lastSubmission, contextMessageId>>
    /\ UNCHANGED offStore

\* StoreSpec has the actions of Spec and the other user events, with one
\* joint bound on the user's events.
StoreEvents == submits + clears + switches + storeEvents
StoreNext ==
    \/ typeInput
    \/ tick
    \/ (StoreEvents < MaxStoreEvents /\ sendMessage)
    \/ callLLMSettlesWithin(MaxStoreToolBatches)
    \/ executeToolSettles
    \/ (StoreEvents < MaxStoreEvents /\ loadConversation)
    \/ (StoreEvents < MaxStoreEvents /\ clearConversationMessages)
    \/ (StoreEvents < MaxStoreEvents /\ newChat)
    \/ (StoreEvents < MaxStoreEvents /\ handleFiles)
    \/ (StoreEvents < MaxStoreEvents /\ showContextMenu)
    \/ (StoreEvents < MaxStoreEvents /\ handleContextAction)

StoreSpec == Init /\ [][StoreNext]_vars

\* ===================================================================
\* ModelSpec: the model list of the settings form (updateModelOptions)
\* ===================================================================
\* the options of the #llm-provider select and the texts typed as API key
FormProviders == {"openai", "anthropic", "google", "aipipe"}
FormApiKeys == {"", "sk-test"}

\* fetchAnthropicModels
AnthropicModels ==
    <<"claude-3-opus-20240229", "claude-3-sonnet-20240229", "claude-3-haiku-20240307">>
\* fetchAIpipeModels: the fallback list, and Array.from(new Set([...sets, fallback]))
AIpipeFallback ==
    <<"openai/gpt-4o-mini", "openai/gpt-4o", "openai/gpt-4.1",
      "openai/gpt-4o-realtime-preview", "openai/gpt-3.5-turbo">>
Dedupe(seq) ==
    SelectSeq([i \in 1..Len(seq) |->
                  IF \E j \in 1..(i - 1) : seq[j] = seq[i] THEN "" ELSE seq[i]],
              LAMBDA x : x # "")
\* model names the listing endpoints may answer with (after the filters of
\* fetchOpenAIModels / fetchGoogleModels; for aipipe, the names of /models)
OpenAIListings == {<<"gpt-4o", "gpt-3.5-turbo">>, <<>>}
GoogleListings == {<<"gemini-pro">>}
AIpipeListings == {<<"anthropic/claude-3-haiku", "openai/gpt-4o">>}

\* what a fetchXModels() promise settles to; failure is why no list came
\* from the endpoint ("none" when one did)
Listed(list) == [state |-> "resolved", value |-> list, failure |-> "none"]
ListingFailed(why) == [state |-> "rejected", failure |-> why]
ListingOutcomes(provider) ==
    CASE provider = "openai" ->
           {Listed(l) : l \in OpenAIListings}
           \cup {ListingFailed("status"), ListingFailed("transport")}
      [] provider = "google" ->
           {Listed(l) : l \in GoogleListings}
           \cup {ListingFailed("status"), ListingFailed("transport")}
      [] provider = "aipipe" ->
           \* a failing fetch is swallowed and the fallback list returned
           {Listed(Dedupe(l \o AIpipeFallback)) : l \in AIpipeListings}
           \cup {[state |-> "resolved", value |-> AIpipeFallback, failure |-> why] :
                    why \in {"status", "transport"}}
      [] OTHER -> {}

\* the number of updateModelOptions calls that have run to their end
Completed == IF lastListing = NoCall THEN 0 ELSE lastListing.n
\* updateModelOptions from the point where `models` is known or the fetch
\* has thrown: the cache.set, the options, the catch and the finally
finishListingRethrows(call, outcome, fromCache) ==
    IF outcome.state = "rejected"
    THEN /\ modelSelect' = [shows |-> "loading", options |-> <<>>,
                            provider |-> call.provider, disabled |-> TRUE]
         /\ lastListing' = [provider |-> call.provider, failure |-> outcome.failure,
                            rejected |-> TRUE, n |-> Completed + 1]
         /\ UNCHANGED <<modelCache, llmModel, toasts>>
    ELSE /\ modelCache' = [k \in DOMAIN modelCache \cup {call.provider} |->
                              IF k = call.provider THEN outcome.value ELSE modelCache[k]]
         /\ modelSelect' = [shows |-> "models", options |-> outcome.value,
                            provider |-> call.provider, disabled |-> FALSE]
         /\ lastListing' = [provider |-> call.provider, failure |-> outcome.failure,
                            rejected |-> FALSE, n |-> Completed + 1]
         /\ UNCHANGED <<llmModel, toasts>>
finishListing(call, outcome, fromCache) ==
    IF outcome.state = "rejected"
    THEN /\ toasts' = Append(toasts, [type |-> "error",
                                      title |-> "Could not fetch " \o call.provider \o " models"])
         /\ modelSelect' = [shows |-> "keyRequired", options |-> <<>>,
                            provider |-> call.provider, disabled |-> FALSE]
         /\ lastListing' = [provider |-> call.provider, failure |-> outcome.failure,
                            rejected |-> FALSE, n |-> Completed + 1]
         /\ UNCHANGED <<modelCache, llmModel>>
    ELSE LET list == outcome.value
         IN /\ modelCache' = IF fromCache THEN modelCache
                             ELSE [k \in DOMAIN modelCache \cup {call.provider} |->
                                     IF k = call.provider THEN list ELSE modelCache[k]]
            /\ modelSelect' = [shows |-> IF list = <<>> THEN "noModels" ELSE "models",
                               options |-> list, provider |-> call.provider,
                               disabled |-> FALSE]
            /\ llmModel' = IF list = <<>> \/ call.currentModel \in Range(list)
                           THEN llmModel ELSE list[1]
            /\ lastListing' = [provider |-> call.provider, failure |-> outcome.failure,
                               rejected |-> FALSE, n |-> Completed + 1]
            /\ UNCHANGED toasts

\* updateModelOptions up to its first await on a fetch, or to its end when
\* the list is cached, constant, or the key is missing
updateModelOptions ==
    LET provider == formProvider'
        call == [provider |-> provider, currentModel |-> llmModel]
    IN IF provider \in DOMAIN modelCache
       THEN finishListing(call, Listed(modelCache[provider]), TRUE) /\ UNCHANGED listings
       ELSE IF provider = "anthropic"
       THEN finishListing(call, Listed(AnthropicModels), FALSE) /\ UNCHANGED listings
       ELSE IF provider \notin {"openai", "google", "aipipe"}
       THEN finishListing(call, Listed(<<"default-local-model">>), FALSE) /\ UNCHANGED listings
       ELSE IF formApiKey' = ""
       THEN finishListing(call, ListingFailed("missingKey"), FALSE) /\ UNCHANGED listings
       ELSE /\ listings' = Append(listings, call)
            /\ modelSelect' = [shows |-> "loading", options |-> <<>>,
                               provider |-> provider, disabled |-> TRUE]
            /\ UNCHANGED <<modelCache, llmModel, toasts, lastListing>>

TurnState == <<now, conversations, currentConversationId, isProcessing, userInput,
               settings, storage, turns, submits, clears, switches, toolResponses,
               lastSubmission>>

\* the settings button: populateSettingsForm, then updateModelOptions
openSettings ==
    /\ modelEvents' = modelEvents + 1
    /\ settingsOpen' = TRUE
    /\ formProvider' = IF settings.llm.provider = "" THEN "aipipe" ELSE settings.llm.provider
    /\ formApiKey' = settings.llm.apiKey
    /\ updateModelOptions
    /\ UNCHANGED <<TurnState, unit, menu, debounceTimer>>

\* the user picks another provider: the change listener calls updateModelOptions
changeProvider ==
    /\ settingsOpen
    /\ modelEvents' = modelEvents + 1
    /\ \E p \in FormProviders : p # formProvider /\ formProvider' = p
    /\ UNCHANGED formApiKey
    /\ updateModelOptions
    /\ UNCHANGED <<TurnState, unit, menu, settingsOpen, debounceTimer>>

\* the user edits the API key: the input listener (re)starts the debounce timer
editApiKey ==
    /\ settingsOpen
    /\ modelEvents' = modelEvents + 1
    /\ \E k \in FormApiKeys : k # formApiKey /\ formApiKey' = k
    /\ debounceTimer' = TRUE
    /\ UNCHANGED <<TurnState, unit, menu, toasts, settingsOpen, formProvider, modelSelect,
                   modelCache, listings, llmModel, lastListing>>

\* the debounce timer fires: updateModelOptions
debounceFires ==
    /\ debounceTimer
    /\ debounceTimer' = FALSE
    /\ UNCHANGED <<formProvider, formApiKey>>
    /\ updateModelOptions
    /\ UNCHANGED <<TurnState, unit, menu, settingsOpen, modelEvents>>

\* the listing fetch of one pending updateModelOptions call settles and the
\* call runs to its end
listingSettles ==
    /\ \E i \in 1..Len(listings) : \E outcome \in ListingOutcomes(listings[i].provider) :
          /\ listings' = SubSeq(listings, 1, i - 1) \o SubSeq(listings, i + 1, Len(listings))
          /\ finishListing(listings[i], outcome, FALSE)
    /\ UNCHANGED <<TurnState, unit, menu, settingsOpen, formProvider, formApiKey,
                   debounceTimer, modelEvents>>

\* ModelSpec has the settings form next to one turn.
ModelNext ==
    \/ (modelEvents < MaxModelEvents /\ openSettings)
    \/ (modelEvents < MaxModelEvents /\ changeProvider)
    \/ (modelEvents < MaxModelEvents /\ editApiKey)
    \/ debounceFires
    \/ listingSettles
    \/ typeInput
    \/ (submits < MaxModelSubmits /\ sendMessage)
    \/ callLLMSettlesWithin(MaxStoreToolBatches)
    \/ executeToolSettles

ModelSpec == Init /\ [][ModelNext]_vars

\* ===================================================================
\* UnitSpec: callLLM, parseAPIResponse and executeTool called on their own
\* ===================================================================
\* A behaviour of UnitSpec makes one such call, on arguments of its choice.
\* longest conversation log handed to callLLM in UnitSpec
MaxLogLen == 2

\* settings.llm values: no provider, the three supported ones, two others
LLMInputs ==
    [provider : {"", "openai", "google", "aipipe", "anthropic", "azure"},
     apiKey : {"", "sk-test"}]

\* messages a log may hold: the kinds addMessage and agentLoop append, a
\* message with empty, structured or no content from a stored history
MessageInputs ==
    {[role |-> "user", content |-> JStr("hi")],
     [role |-> "assistant", content |-> JStr("hello")],
     [role |-> "system", content |-> JStr("Executing tool: web_search")],
     [role |-> "tool", tool_call_id |-> "call_1", name |-> "web_search",
      content |-> JStr("{\"error\":\"Unknown tool: foo\"}")],
     [role |-> "assistant", content |-> JNull, tool_calls |-> <<tcSearch>>],
     [role |-> "assistant", content |-> JStr("")],
     [role |-> "user", content |-> JObj([text |-> "hi"])],
     [role |-> "tool"]}
LogInputs == UNION {[1..n -> MessageInputs] : n \in 0..MaxLogLen}

\* callLLM(conversation, settings): the promise it returns, the list
\* messagesForApi it builds first and, when it started a fetch, the messages
\* of the request body
unitCallLLM ==
    /\ unitCall = NoCall
    /\ \E llm \in LLMInputs : \E log \in LogInputs :
          /\ unitCall' = [op |-> "callLLM", llm |-> llm, messages |-> log]
          /\ unitResult' =
                [promise |-> callLLM(llm),
                 normalized |-> messagesForApi(log),
                 fetched |-> callLLM(llm) = Pending,
                 messages |-> IF callLLM(llm) = Pending
                              THEN requestMessages(llm.provider, messagesForApi(log))
                              ELSE <<>>]
    /\ UNCHANGED appState

\* response bodies of every shape parseAPIResponse distinguishes
ParseInputs ==
    {PayloadText, PayloadEmpty, PayloadTextTools, PayloadNoChoices, PayloadCandidates,
     JNull,
     [choices |-> <<[text |-> "hi"]>>],
     [choices |-> <<[index |-> "0"]>>],
     [choices |-> <<>>],
     [choices |-> <<>>, candidates |-> <<[content |-> JObj([parts |-> <<[text |-> "a"], [text |-> "b"]>>])]>>],
     [candidates |-> <<[content |-> JStr("plain")]>>],
     [candidates |-> <<[finishReason |-> "STOP"]>>],
     [candidates |-> <<>>]}
ProviderInputs == {"openai", "aipipe", "google", "anthropic"}

unitParseAPIResponse ==
    /\ unitCall = NoCall
    /\ \E data \in ParseInputs : \E provider \in ProviderInputs :
          /\ unitCall' = [op |-> "parseAPIResponse", data |-> data, provider |-> provider]
          /\ unitResult' = parseAPIResponse(data, provider)
    /\ UNCHANGED appState

\* tool calls: every registry name, an unknown name and no name, with the
\* arguments inside function (the data-model shape) or at the top level, as
\* a JSON string, as an object, as a malformed string, as 'null', or absent
ObjectArgs == JObj([query |-> "tla"])
ArgumentInputs == {JStr("{\"query\":\"tla\"}"), ObjectArgs, JStr("{oops"), JStr("null")}
NameInputs == {"web_search", "execute_code", "process_file", "create_visualization", "foo"}
ToolCallInputs ==
    {[id |-> "call_1", function |-> [name |-> n, arguments |-> a]] :
        n \in NameInputs, a \in ArgumentInputs}
    \cup {[id |-> "call_1", function |-> [name |-> n], arguments |-> a] :
        n \in NameInputs, a \in ArgumentInputs}
    \cup {[id |-> "call_1", function |-> [name |-> n]] : n \in NameInputs}
    \cup {[id |-> "call_1", function |-> EmptyObject], tcNoFunction}

\* executeTool(toolCall): the args it hands to the handler and the promise
\* it returns
unitExecuteTool ==
    /\ unitCall = NoCall
    /\ \E tc \in ToolCallInputs :
          /\ unitCall' = [op |-> "executeTool", toolCall |-> tc]
          /\ unitResult' = [name |-> toolName(tc), args |-> toolArgs(tc),
                            promise |-> executeTool(tc)]
    /\ UNCHANGED appState

\* DEFAULTS of constants.js; a primitive value is written as its JSON text
DEFAULTS ==
    [llm |-> [provider |-> "aipipe", apiKey |-> "", model |-> "default",
              maxTokens |-> "2000", temperature |-> "0.7"],
     ui |-> [theme |-> "auto", animationsEnabled |-> "true", soundEnabled |-> "false",
             fontSize |-> "medium"],
     voice |-> [enabled |-> "false", outputEnabled |-> "false", language |-> "en-US",
                speechRate |-> "1"],
     advanced |-> [autoSave |-> "true", analyticsEnabled |-> "false", maxHistory |-> "100"]]
SettingsGroups == {"llm", "ui", "voice", "advanced"}
\* { ...a, ...b }
SpreadKeepsDefaults(a, b) == [f \in DOMAIN a \cup DOMAIN b |-> IF f \in DOMAIN a THEN a[f] ELSE b[f]]
Spread(a, b) == [f \in DOMAIN a \cup DOMAIN b |-> IF f \in DOMAIN b THEN b[f] ELSE a[f]]

\* localStorage['agentflow_settings']: absent, a text JSON.parse rejects, or
\* the value JSON.parse returns
NoSettingsStored == [present |-> FALSE]
UnparsableSettings == [present |-> TRUE, parses |-> FALSE]
StoredSettings(value) == [present |-> TRUE, parses |-> TRUE, value |-> value]

\* loadSettings: the settings after it, given the settings before it
loadSettings(current, stored) ==
    IF ~stored.present \/ ~stored.parses THEN current
    ELSE IF stored.value = JNull THEN current
    ELSE LET loaded == stored.value.v
             top == Spread(DEFAULTS, loaded)
             group(g) == Spread(DEFAULTS[g],
                                IF Has(loaded, g) /\ loaded[g] # JNull THEN loaded[g].v
                                ELSE EmptyObject)
         IN [f \in DOMAIN top |-> IF f \in SettingsGroups THEN group(f) ELSE top[f]]

\* what a stored settings object may hold for a group: nothing, null, an
\* empty object, some of the fields, all of them, a field DEFAULTS lacks
GroupInputs(g) ==
    CASE g = "llm" ->
           {JNull, JObj(EmptyObject), JObj([provider |-> "openai"]),
            JObj([provider |-> "openai", apiKey |-> "sk-test", model |-> "gpt-4o",
                  maxTokens |-> "100", temperature |-> "0"])}
      [] g = "ui" -> {JNull, JObj(EmptyObject), JObj([theme |-> "dark", accent |-> "green"])}
      [] g = "voice" -> {JNull, JObj(EmptyObject), JObj([enabled |-> "true", speechRate |-> "2"])}
      [] OTHER -> {JNull, JObj(EmptyObject), JObj([autoSave |-> "false"])}
StoredObjects ==
    UNION {{[g \in gs |-> choice[g]] : choice \in [gs -> UNION {GroupInputs(g) : g \in gs}]}
           : gs \in SUBSET SettingsGroups}
WellFormed(obj) == \A g \in DOMAIN obj : obj[g] \in GroupInputs(g)
StoredSettingsInputs ==
    {NoSettingsStored, UnparsableSettings, StoredSettings(JNull)}
    \cup {StoredSettings(JObj(obj)) : obj \in {o \in StoredObjects : WellFormed(o)}}
    \cup {StoredSettings(JObj([version |-> JStr("2.8.0"), llm |-> JObj([model |-> "gpt-4o"])]))}

\* loadSettings() on the settings of the constructor (the defaults)
unitLoadSettings ==
    /\ unitCall = NoCall
    /\ \E stored \in StoredSettingsInputs :
          /\ unitCall' = [op |-> "loadSettings", stored |-> stored]
          /\ unitResult' = loadSettings(DEFAULTS, stored)
    /\ UNCHANGED appState

\* ---- services/llm.js next to the methods of GyaanSetu it was extracted from
\* settings values handed to callLLM: null, an object without llm, and llm
\* objects with and without provider, api key and model
ModelInputs == {"", "gpt-4o"}
SettingsInputs ==
    {JNull, JObj(EmptyObject)}
    \cup {JObj([llm |-> [provider |-> l.provider, apiKey |-> l.apiKey, model |-> m,
                        maxTokens |-> DEFAULTS.llm.maxTokens,
                        temperature |-> DEFAULTS.llm.temperature]]) :
            l \in LLMInputs, m \in ModelInputs}
\* the llm object of a settings object without one: {} (every member undefined)
NoLLM == [provider |-> "", apiKey |-> "", model |-> "", maxTokens |-> 0, temperature |-> ""]

\* what fetch(apiUrl, ...) and the reading of its body end in
FetchResponses ==
    {[kind |-> "ok", body |-> PayloadText],
     [kind |-> "ok", body |-> PayloadNoChoices],
     [kind |-> "okUnparsable", message |-> "Unexpected end of JSON input"],
     [kind |-> "status", error |-> "message"],
     [kind |-> "status", error |-> "other"],
     [kind |-> "status", error |-> "unparsable"],
     [kind |-> "network", message |-> "Failed to fetch"],
     [kind |-> "network", message |-> ""]}
NoRequest == [url |-> ""]
HttpError(errText) ==
    "Model not supported for your API key - change model in settings. (Status: 401, Details: "
        \o errText \o ")"

\* GyaanSetu.callLLM: the provider switch (apiUrl, headers, body)
callLLMRequest(llm, msgs) ==
    CASE llm.provider = "openai" ->
            [url |-> "https://api.openai.com/v1/chat/completions",
             headers |-> [ContentType |-> "application/json",
                          Authorization |-> "Bearer " \o llm.apiKey],
             body |-> [model |-> llm.model, messages |-> msgs,
                       max_tokens |-> llm.maxTokens, temperature |-> llm.temperature]]
      [] llm.provider = "google" ->
            [url |-> "https://generativelanguage.googleapis.com/v1beta/models/"
                        \o llm.model \o ":generateContent?key=" \o llm.apiKey,
             headers |-> [ContentType |-> "application/json"],
             body |-> [messages |-> [i \in 1..Len(msgs) |->
                                       [role |-> IF msgs[i].role = "assistant"
                                                 THEN "model" ELSE "user",
                                        content |-> msgs[i].content]],
                       temperature |-> llm.temperature,
                       maxOutputTokens |-> llm.maxTokens]]
      [] llm.provider = "aipipe" ->
            [url |-> "https://aipipe.org/openrouter/v1/chat/completions",
             headers |-> [ContentType |-> "application/json",
                          Authorization |-> "Bearer " \o llm.apiKey],
             body |-> [model |-> IF llm.model # "" THEN llm.model ELSE "openai/gpt-4o-mini",
                       messages |-> [i \in 1..Len(msgs) |->
                                       [role |-> msgs[i].role, content |-> msgs[i].content]],
                       max_tokens |-> llm.maxTokens, temperature |-> llm.temperature]]
\* GyaanSetu.callLLM: try { fetch ... } catch (err) { throw new Error(err.message || 'Network error') }
callLLMFetchEnds(response) ==
    CASE response.kind = "ok" -> Resolved(response.body)
      [] response.kind = "okUnparsable" -> Rejected(response.message)
      [] response.kind = "status" ->
            Rejected(HttpError(CASE response.error = "message" -> "Incorrect API key"
                                 [] response.error = "other" -> "{\"code\":401}"
                                 [] OTHER -> "401 Unauthorized"))
      [] OTHER -> Rejected(IF response.message # "" THEN response.message
                           ELSE "Network error")
\* GyaanSetu.callLLM(conversation) with this.state.settings = settings
callLLMOn(messages, settingsArg, response) ==
    IF settingsArg = JNull
    THEN [request |-> NoRequest,
          promise |-> Rejected("Cannot read properties of null (reading 'llm')")]
    ELSE LET llm == IF Has(settingsArg.v, "llm") THEN settingsArg.v.llm ELSE NoLLM
         IN IF callLLM(llm) # Pending
            THEN [request |-> NoRequest, promise |-> callLLM(llm)]
            ELSE [request |-> callLLMRequest(llm, messagesForApi(messages)),
                  promise |-> callLLMFetchEnds(response)]

\* services/llm.js callLLM: (conversation.messages || []).map(...).filter(...)
svc_normalize(m) ==
    IF m.role = "tool"
    THEN [role |-> "system",
          content |-> IF Has(m, "content") /\ IsString(m.content)
                      THEN m.content ELSE JSONstringifyContent(m)]
    ELSE [role |-> m.role,
          content |-> IF Has(m, "content") /\ IsString(m.content)
                      THEN m.content ELSE JSONstringifyContent(m)]
svc_messagesForApi(messages) ==
    SelectSeq([i \in 1..Len(messages) |-> svc_normalize(messages[i])],
              LAMBDA m : Truthy(m.content))
\* services/llm.js callLLM: the provider switch
svc_requestNoModelFallback(llm, msgs) ==
    CASE llm.provider = "openai" ->
            [url |-> "https://api.openai.com/v1/chat/completions",
             headers |-> [ContentType |-> "application/json",
                          Authorization |-> "Bearer " \o llm.apiKey],
             body |-> [model |-> llm.model, messages |-> msgs,
                       max_tokens |-> llm.maxTokens, temperature |-> llm.temperature]]
      [] llm.provider = "google" ->
            [url |-> "https://generativelanguage.googleapis.com/v1beta/models/"
                        \o llm.model \o ":generateContent?key=" \o llm.apiKey,
             headers |-> [ContentType |-> "application/json"],
             body |-> [messages |-> [i \in 1..Len(msgs) |->
                                       [role |-> IF msgs[i].role = "assistant"
                                                 THEN "model" ELSE "user",
                                        content |-> msgs[i].content]],
                       temperature |-> llm.temperature,
                       maxOutputTokens |-> llm.maxTokens]]
      [] llm.provider = "aipipe" ->
            [url |-> "https://aipipe.org/openrouter/v1/chat/completions",
             headers |-> [ContentType |-> "application/json",
                          Authorization |-> "Bearer " \o llm.apiKey],
             body |-> [model |-> llm.model,
                       messages |-> [i \in 1..Len(msgs) |->
                                       [role |-> msgs[i].role, content |-> msgs[i].content]],
                       max_tokens |-> llm.maxTokens, temperature |-> llm.temperature]]
svc_request(llm, msgs) ==
    CASE llm.provider = "openai" ->
            [url |-> "https://api.openai.com/v1/chat/completions",
             headers |-> [ContentType |-> "application/json",
                          Authorization |-> "Bearer " \o llm.apiKey],
             body |-> [model |-> llm.model, messages |-> msgs,
                       max_tokens |-> llm.maxTokens, temperature |-> llm.temperature]]
      [] llm.provider = "google" ->
            [url |-> "https://generativelanguage.googleapis.com/v1beta/models/"
                        \o llm.model \o ":generateContent?key=" \o llm.apiKey,
             headers |-> [ContentType |-> "application/json"],
             body |-> [messages |-> [i \in 1..Len(msgs) |->
                                       [role |-> IF msgs[i].role = "assistant"
                                                 THEN "model" ELSE "user",
                                        content |-> msgs[i].content]],
                       temperature |-> llm.temperature,
                       maxOutputTokens |-> llm.maxTokens]]
      [] llm.provider = "aipipe" ->
            [url |-> "https://aipipe.org/openrouter/v1/chat/completions",
             headers |-> [ContentType |-> "application/json",
                          Authorization |-> "Bearer " \o llm.apiKey],
             body |-> [model |-> IF llm.model # "" THEN llm.model ELSE "openai/gpt-4o-mini",
                       messages |-> [i \in 1..Len(msgs) |->
                                       [role |-> msgs[i].role, content |-> msgs[i].content]],
                       max_tokens |-> llm.maxTokens, temperature |-> llm.temperature]]
\* services/llm.js callLLM: the POST request with simple error handling
svc_fetchEnds(response) ==
    IF response.kind = "ok" THEN Resolved(response.body)
    ELSE IF response.kind = "status"
    THEN LET errText == IF response.error = "message" THEN "Incorrect API key"
                        ELSE IF response.error = "other" THEN "{\"code\":401}"
                        ELSE "401 Unauthorized"
         IN Rejected(HttpError(errText))
    ELSE Rejected(IF response.message # "" THEN response.message ELSE "Network error")
\* services/llm.js callLLM(conversation, settings)
svc_callLLM(messages, settingsArg, response) ==
    LET llm == IF settingsArg # JNull /\ Has(settingsArg.v, "llm")
               THEN settingsArg.v.llm ELSE NoLLM
    IN IF llm.provider = ""
       THEN [request |-> NoRequest, promise |-> Rejected("No LLM provider configured.")]
       ELSE IF llm.apiKey = ""
       THEN [request |-> NoRequest,
             promise |-> Resolved([choices |-> <<[message |-> [content |->
                 JStr("Demo response: provide an API key in settings to use real models.")]]>>])]
       ELSE IF llm.provider \notin {"openai", "google", "aipipe"}
       THEN [request |-> NoRequest,
             promise |-> Rejected("Unsupported provider: " \o llm.provider)]
       ELSE [request |-> svc_request(llm, svc_messagesForApi(messages)),
             promise |-> svc_fetchEnds(response)]

\* services/llm.js parseAPIResponse(data, provider)
svc_parseAPIResponse(data, provider) ==
    CASE provider \in {"openai", "aipipe"} ->
            IF data = JNull THEN [ok |-> FALSE, error |-> "Could not parse the API response."]
            ELSE IF Has(data, "choices") /\ Len(data.choices) > 0
            THEN (IF Has(data.choices[1], "message")
                  THEN Parsed(data.choices[1].message)
                  ELSE Parsed([content |-> JStr(IF Has(data.choices[1], "text")
                                                THEN data.choices[1].text ELSE "")]))
            ELSE IF Has(data, "candidates") /\ Len(data.candidates) > 0
            THEN LET c == data.candidates[1]
                     \* content?.parts || content || []
                     parts == IF Has(c, "content") /\ c.content.t = "object"
                                 /\ Has(c.content.v, "parts")
                              THEN [list |-> TRUE, v |-> c.content.v.parts]
                              ELSE IF Has(c, "content") /\ Truthy(c.content)
                              THEN [list |-> FALSE, v |-> c.content]
                              ELSE [list |-> TRUE, v |-> <<>>]
                 IN Parsed([content |-> IF parts.list THEN JStr(JoinParts(parts.v))
                                        ELSE parts.v])
            ELSE Parsed([content |-> JStr(JSONstringifyData(data))])
      [] provider = "google" ->
            IF data = JNull THEN [ok |-> FALSE, error |-> "Could not parse the API response."]
            ELSE IF Has(data, "candidates") /\ Len(data.candidates) > 0
            THEN LET c == data.candidates[1]
                 IN IF Has(c, "content") /\ c.content.t = "object"
                       /\ Has(c.content.v, "parts") /\ Len(c.content.v.parts) > 0
                    THEN Parsed([content |->
                                   IF Has(c.content.v.parts[1], "text")
                                   THEN JStr(c.content.v.parts[1].text) ELSE JNull])
                    ELSE [ok |-> FALSE, error |-> "Could not parse the API response."]
            ELSE Parsed([content |-> JStr(JSONstringifyData(data))])
      [] OTHER -> Parsed([content |-> JStr("Response format not recognized.")])

\* one call of callLLM through the method and through the service, on the
\* same conversation, settings and fetch
unitBothCallLLM ==
    /\ unitCall = NoCall
    /\ \E settingsValue \in SettingsInputs : \E log \in LogInputs :
       \E response \in FetchResponses :
          /\ unitCall' = [op |-> "callLLM twice", settings |-> settingsValue,
                          messages |-> log, response |-> response]
          /\ unitResult' = [method |-> callLLMOn(log, settingsValue, response),
                            service |-> svc_callLLM(log, settingsValue, response)]
    /\ UNCHANGED appState

\* one call of parseAPIResponse through the method and through the service
unitBothParseAPIResponse ==
    /\ unitCall = NoCall
    /\ \E data \in ParseInputs : \E provider \in ProviderInputs :
          /\ unitCall' = [op |-> "parseAPIResponse twice", data |-> data,
                          provider |-> provider]
          /\ unitResult' = [method |-> parseAPIResponse(data, provider),
                            service |-> svc_parseAPIResponse(data, provider)]
    /\ UNCHANGED appState

UnitNext ==
    \/ unitCallLLM
    \/ unitParseAPIResponse
    \/ unitExecuteTool
    \/ unitLoadSettings
    \/ unitBothCallLLM
    \/ unitBothParseAPIResponse

UnitSpec == Init /\ [][UnitNext]_vars

\* ===================================================================
\* Properties
\* ===================================================================
Turns == 1..Len(turns)
Ended(t) == turns[t].pc = "done"
Log(t) == conversations[turns[t].convId].messages

\* C1: whatever the provider returns, tool calls on every response included,
\* a sendMessage invocation makes at most 5 callLLM invocations before its
\* turn ends.
C1_AtMostFiveProviderCalls ==
    \A t \in Turns : turns[t].calls <= 5

\* a turn whose five responses all requested tools and that ended on the budget
C1_Witness ==
    \E t \in Turns :
        /\ Ended(t) /\ turns[t].exit = "budget"
        /\ turns[t].calls = 5
        /\ Len(turns[t].batches) = 5

\* What the tool step of batch b of turn t appended to the turn's conversation.
Added(t, b) ==
    SelectSeq(SubSeq(turns[t].appended, b.from + 1, b.to),
              LAMBDA e : e.conv = turns[t].convId)
Indices(seq, Test(_)) == {i \in 1..Len(seq) : Test(seq[i])}
IsPlaceholder(e) ==
    e.msg.role = "assistant" /\ e.msg.content = JNull /\ Has(e.msg, "tool_calls")
IsToolMessage(e) == e.msg.role = "tool"
Ids(tcs) == {tcs[j].id : j \in 1..Len(tcs)}

\* C2: for a response with N >= 1 tool calls that all execute without
\* throwing, the tool step adds to the log exactly 1 placeholder assistant
\* message (content null, carrying tool_calls) and exactly N tool messages,
\* each with the tool_call_id of one of the N calls, and nothing else.
C2_ToolStepAddsPlaceholderAndNToolMessages ==
    \A t \in Turns : \A k \in 1..Len(turns[t].batches) :
        LET b == turns[t].batches[k]
            added == Added(t, b)
            N == Len(b.tool_calls)
        IN b.ok =>
            /\ Cardinality(Indices(added, IsPlaceholder)) = 1
            /\ Cardinality(Indices(added, IsToolMessage)) = N
            /\ Len(added) = 1 + N
            /\ \A i \in Indices(added, IsToolMessage) :
                   /\ Has(added[i].msg, "tool_call_id")
                   /\ added[i].msg.tool_call_id \in Ids(b.tool_calls)

\* the response content a callLLM outcome parses to, if it is a text-only one
TextOnly(outcome) ==
    /\ outcome.state = "resolved"
    /\ LET p == parseAPIResponse(outcome.value, settings.llm.provider)
       IN /\ p.ok
          /\ Has(p.value, "content")
          /\ p.value.content \notin {JNull, JStr("")}
          /\ ~NonEmptyList(p.value, "tool_calls")
ContentOf(outcome) == parseAPIResponse(outcome.value, settings.llm.provider).value.content

\* C3: for a conversation whose log is empty, after one sendMessage with
\* non-empty input whose single provider response is text only (and with no
\* clear-chat in between), the log is exactly the user message with the
\* submitted text followed by one assistant message with the response
\* content, and exactly one callLLM invocation was made.
C3_TextOnlyTurnOnEmptyLog ==
    \A t \in Turns :
        ( /\ Ended(t)
          /\ turns[t].logBefore = <<>>
          /\ ~turns[t].disturbed
          /\ Len(turns[t].responses) = 1
          /\ TextOnly(turns[t].responses[1]) )
        => /\ Len(Log(t)) = 2
           /\ Log(t)[1].role = "user"
           /\ Log(t)[1].content = JStr(turns[t].input)
           /\ Log(t)[2].role = "assistant"
           /\ Log(t)[2].content = ContentOf(turns[t].responses[1])
           /\ turns[t].calls = 1
           /\ turns[t].exit = "done"

\* such a turn has ended, its response fetched from the provider
C3_Witness ==
    \E t \in Turns :
        /\ Ended(t)
        /\ turns[t].logBefore = <<>>
        /\ ~turns[t].disturbed
        /\ turns[t].responses = <<Resolved(PayloadText)>>
        /\ turns[t].input = "hi"
        /\ Len(Log(t)) = 2

Running == {t \in Turns : ~Ended(t)}

\* C4: at most one turn is in flight at any time, and a sendMessage invoked
\* while isProcessing is true is rejected: it appends no message to any
\* conversation, starts no turn and makes no provider call, and leaves
\* isProcessing and the pending input unchanged.
C4_OneTurnInFlight ==
    /\ [](Cardinality(Running) <= 1 /\ (isProcessing <=> Running # {}))
    /\ [][(submits' # submits /\ isProcessing)
            => /\ lastSubmission' \in {"busy", "empty"}
               /\ UNCHANGED <<conversations, currentConversationId, isProcessing,
                              userInput, turns, storage, toasts>>]_vars

\* a submission with text in the composer was rejected while a turn awaits
C4_Witness ==
    /\ lastSubmission = "busy"
    /\ isProcessing
    /\ userInput = " hi "
    /\ \E t \in Turns : turns[t].pc \in {"awaitLLM", "awaitTools"}

\* C5: provided every provider call and tool execution settles, every turn
\* that starts eventually finishes, by one of the three exits (no tool
\* calls, iteration error, budget exhausted); when it has finished
\* isProcessing is false, and a later submission with text is accepted.
C5_EveryTurnFinishes ==
    /\ (Running # {}) ~> (Running = {} /\ ~isProcessing)
    /\ [](\A t \in Turns :
            Ended(t) => /\ turns[t].exit \in {"done", "error", "budget"}
                        /\ (Running = {} => ~isProcessing))
    /\ [][(submits' # submits /\ Running = {} /\ Trim(userInput) # "")
            => lastSubmission' = "started" /\ Running' # {}]_vars

\* a turn that began after another had exhausted its budget has itself
\* ended, on an iteration error
C5_Witness ==
    \E t \in Turns :
        /\ turns[t].prevExit = "budget"
        /\ Ended(t) /\ turns[t].exit = "error"
        /\ ~isProcessing

\* the system message the catch of agentLoop appends for turn t
IsIterationError(t, e) ==
    /\ e.conv = turns[t].convId
    /\ e.msg.role = "system"
    /\ e.msg.content = IterationError(turns[t].error)
\* an 'Executing tool: <name>' note of one of the tool calls of turn t
IsExecutingNote(t, e) ==
    /\ e.msg.role = "system"
    /\ \E k \in 1..Len(turns[t].batches) :
          \E j \in 1..Len(turns[t].batches[k].tool_calls) :
             e.msg.content =
                JStr("Executing tool: " \o toolName(turns[t].batches[k].tool_calls[j]))
LastResponseRejected(t) ==
    /\ turns[t].responses # <<>>
    /\ turns[t].pc # "awaitLLM"
    /\ turns[t].responses[Len(turns[t].responses)].state = "rejected"

\* C6: a failure of an iteration (callLLM rejects, parseAPIResponse throws, a
\* tool execution throws) is caught inside the turn: exactly one system
\* message describing the failure is appended to the turn's conversation
\* (the last message the turn appends), no further callLLM invocation is
\* made in that turn, and sendMessage does not reject: it runs to its end.
C6_IterationFailureIsCaught ==
    \A t \in Turns :
        /\ LastResponseRejected(t) => turns[t].failedAtCall # 0
        /\ turns[t].failedAtCall # 0 =>
              LET app == turns[t].appended
              IN /\ Ended(t) /\ turns[t].exit = "error"
                 /\ turns[t].calls = turns[t].failedAtCall
                 /\ Cardinality(Indices(app, LAMBDA e : IsIterationError(t, e))) = 1
                 /\ IsIterationError(t, app[Len(app)])
                 /\ \A i \in 1..Len(app) :
                       app[i].msg.role = "system"
                          => IsIterationError(t, app[i]) \/ IsExecutingNote(t, app[i])
                 /\ ~isProcessing

\* a turn has ended on a parse failure of its second response
C6_Witness ==
    \E t \in Turns :
        /\ Ended(t) /\ turns[t].failedAtCall = 2
        /\ turns[t].error = ParseError.error
        /\ turns[t].responses[2] = Resolved(JNull)

\* C7: every exception raised during a turn-loop iteration results in both
\* a system message in the conversation and an error toast (showToast)
\* before the turn ends.
C7_FailureShowsMessageAndToast ==
    \A t \in Turns :
        (Ended(t) /\ turns[t].failedAtCall # 0)
        => /\ \E i \in 1..Len(turns[t].appended) : IsIterationError(t, turns[t].appended[i])
           /\ Len(toasts) > turns[t].toastsBefore
           /\ toasts[Len(toasts)].type = "error"

IsPrefix(a, b) == Len(a) <= Len(b) /\ SubSeq(b, 1, Len(a)) = a

ToolMessagesWithId(t, b) ==
    SelectSeq(Added(t, b), LAMBDA e : IsToolMessage(e) /\ Has(e.msg, "tool_call_id"))
\* the 'Executing tool' notes of batch b, whichever conversation they went to
ExecutingNotes(t, b) ==
    SelectSeq(SubSeq(turns[t].appended, b.from + 1, b.to),
              LAMBDA e : IsExecutingNote(t, e))

\* C9: every tool call of a response is executed exactly once, and the tool
\* result messages carrying tool_call_id are appended in the request order
\* whatever order the executions complete in: the i-th has the id and
\* function name of the i-th call and the JSON text of that call's result.
C9_ToolResultsInRequestOrder ==
    \A t \in Turns : \A k \in 1..Len(turns[t].batches) :
        LET b == turns[t].batches[k]
            N == Len(b.tool_calls)
            tm == ToolMessagesWithId(t, b)
            notes == ExecutingNotes(t, b)
        IN /\ Len(notes) = N
           /\ \A i \in 1..N :
                 notes[i].msg.content = JStr("Executing tool: " \o toolName(b.tool_calls[i]))
           /\ b.ok =>
                 /\ Len(tm) = N
                 /\ \A i \in 1..N :
                       /\ tm[i].msg.tool_call_id = b.tool_calls[i].id
                       /\ tm[i].msg.name = b.tool_calls[i].function.name
                       /\ tm[i].msg.content =
                             JStr(JSONstringify(executeTool(b.tool_calls[i]).value))

\* the second call of a batch completed before the first, and the results
\* were appended
C9_Witness ==
    \E t \in Turns :
        LET n == Len(turns[t].batches)
        IN /\ n > 0 /\ turns[t].batches[n].ok
           /\ turns[t].settled = <<2, 1>>
           /\ Len(ToolMessagesWithId(t, turns[t].batches[n])) = 2

Throws(b) == \E i \in 1..Len(b.tool_calls) : executeTool(b.tool_calls[i]).state = "rejected"

\* C10: if one tool call of a batch throws, then once Promise.all has
\* settled no tool-result message of that batch is appended, not even for
\* the calls that succeeded; one system error message is appended and the
\* loop ends without another callLLM invocation.
C10_ThrowingToolFailsTheBatch ==
    \A t \in Turns : \A k \in 1..Len(turns[t].batches) :
        LET b == turns[t].batches[k]
            app == turns[t].appended
        IN (Throws(b) /\ ~(k = Len(turns[t].batches) /\ turns[t].pc = "awaitTools"))
           => /\ ~b.ok
              /\ k = Len(turns[t].batches)
              /\ Ended(t) /\ turns[t].exit = "error"
              /\ turns[t].calls = turns[t].failedAtCall
              /\ \A i \in (b.from + 1)..Len(app) : ~IsToolMessage(app[i])
              /\ Cardinality(Indices(app, LAMBDA e : IsIterationError(t, e))) = 1
              /\ IsIterationError(t, app[Len(app)])

\* the call that succeeds completed first, then the other one threw
C10_Witness ==
    \E t \in Turns :
        LET n == Len(turns[t].batches)
        IN /\ n > 0 /\ Throws(turns[t].batches[n])
           /\ Ended(t)
           /\ turns[t].settled = <<1, 2>>
           /\ turns[t].promises[1].state = "resolved"
           /\ turns[t].promises[2].state = "rejected"

\* C11: in every reachable state, every message with role tool in any
\* conversation's log carries a tool_call_id and a name, which are the id
\* and function name of a tool call listed by an assistant placeholder
\* message earlier in the same log.
C11_ToolMessagesReferenceAToolCall ==
    \A c \in DOMAIN conversations :
        LET log == conversations[c].messages
        IN \A i \in 1..Len(log) :
              log[i].role = "tool"
              => /\ Has(log[i], "tool_call_id")
                 /\ Has(log[i], "name")
                 /\ \E j \in 1..(i - 1) :
                       /\ log[j].role = "assistant"
                       /\ Has(log[j], "tool_calls")
                       /\ \E k \in 1..Len(log[j].tool_calls) :
                             /\ log[j].tool_calls[k].id = log[i].tool_call_id
                             /\ log[j].tool_calls[k].function.name = log[i].name

NullAssistant(m) == m.role = "assistant" /\ m.content = JNull

\* C12: in every reachable state, every message with role assistant and
\* content null carries a non-empty tool_calls list, in every log and among
\* the messages every turn has appended.
C12_NullAssistantCarriesToolCalls ==
    /\ \A c \in DOMAIN conversations :
          \A i \in 1..Len(conversations[c].messages) :
             LET m == conversations[c].messages[i]
             IN NullAssistant(m) => Has(m, "tool_calls") /\ Len(m.tool_calls) > 0
    /\ \A t \in Turns :
          \A i \in 1..Len(turns[t].appended) :
             LET m == turns[t].appended[i].msg
             IN NullAssistant(m) => Has(m, "tool_calls") /\ Len(m.tool_calls) > 0

\* a response with null content and an empty tool_calls array has been
\* handled (nothing appended), after one whose placeholder is in the log
C12_Witness ==
    \E t \in Turns :
        /\ Ended(t)
        /\ Len(turns[t].responses) = 2
        /\ turns[t].responses[1] = Resolved(PayloadToolThrows)
            \/ turns[t].responses[1] = Resolved(PayloadTextTools)
        /\ turns[t].responses[2] = Resolved(PayloadEmptyTools)
        /\ \E i \in 1..Len(Log(t)) : NullAssistant(Log(t)[i])

\* C13: when all 5 iterations of a turn return tool calls that execute
\* successfully, the turn ends after the fifth iteration without an error
\* being recorded: no system error message is appended, no notification is
\* shown, and the last message appended is a tool result of the fifth batch.
C13_BudgetExhaustionIsSilent ==
    \A t \in Turns :
        ( /\ Ended(t)
          /\ Len(turns[t].batches) = 5
          /\ \A k \in 1..5 : turns[t].batches[k].ok )
        => LET app == turns[t].appended
               b == turns[t].batches[5]
               n == Len(b.tool_calls)
               last == app[Len(app)]
           IN /\ turns[t].exit = "budget"
              /\ turns[t].calls = 5
              /\ turns[t].failedAtCall = 0
              /\ \A i \in 1..Len(app) :
                    app[i].msg.role = "system" => IsExecutingNote(t, app[i])
              /\ Len(toasts) = turns[t].toastsBefore
              /\ b.to = Len(app)
              /\ last.conv = turns[t].convId
              /\ last.msg.role = "tool"
              /\ last.msg.content = JStr(JSONstringify(executeTool(b.tool_calls[n]).value))
              /\ ~turns[t].disturbed => Log(t)[Len(Log(t))] = last.msg
              /\ ~isProcessing

\* a turn has ended after five successful tool batches, its log untouched
C13_Witness ==
    \E t \in Turns :
        /\ Ended(t)
        /\ Len(turns[t].batches) = 5
        /\ \A k \in 1..5 : turns[t].batches[k].ok
        /\ ~turns[t].disturbed
        /\ Log(t)[Len(Log(t))].role = "tool"

DemoMode(llm) == llm.provider # "" /\ llm.apiKey = ""

\* C14: whenever the settings have a provider and no API key, callLLM
\* returns the fixed demo payload and makes no network request; a whole turn
\* in demo mode makes exactly one callLLM invocation and no network request.
C14_DemoModeMakesNoRequest ==
    /\ \A llm \in LLMInputs :
          DemoMode(llm)
          => /\ callLLM(llm) =
                   Resolved([choices |-> <<[message |-> [content |->
                      JStr("Demo response: provide an API key in settings to use real models.")]]>>])
             /\ callLLM(llm) # Pending
    /\ DemoMode(settings.llm)
       => \A t \in Turns :
             /\ turns[t].calls = 1
             /\ turns[t].fetches = 0
             /\ \A i \in 1..Len(turns[t].responses) :
                   turns[t].responses[i] = Resolved(DemoPayload)
             /\ Ended(t) => turns[t].exit = "done" /\ Len(turns[t].responses) = 1

\* a turn in demo mode has ended with the demo text as the assistant's reply
C14_Witness ==
    /\ DemoMode(settings.llm)
    /\ \E t \in Turns :
          /\ Ended(t)
          /\ turns[t].calls = 1
          /\ ~turns[t].disturbed
          /\ Log(t)[Len(Log(t))].role = "assistant"
          /\ Log(t)[Len(Log(t))].content = JStr(DemoContent)

Unsupported(llm) == llm.provider # "" /\ llm.provider \notin {"openai", "google", "aipipe"}
CalledLLM == unitCall.op = "callLLM"

\* C15 as stated: for every provider that is a non-empty string outside
\* {openai, google, aipipe}, with or without an API key, callLLM fails with
\* an error whose message names the provider, and makes no network request.
C15_UnsupportedProviderFails ==
    (CalledLLM /\ Unsupported(unitCall.llm))
    => /\ unitResult.promise = Rejected("Unsupported provider: " \o unitCall.llm.provider)
       /\ ~unitResult.fetched

\* C15, amended: with an API key, callLLM fails with an error naming the
\* unsupported provider and makes no network request; without an API key the
\* demo check comes first and callLLM returns the demo payload, also without
\* a network request.
C15_UnsupportedProviderFailsWithKey ==
    (CalledLLM /\ Unsupported(unitCall.llm))
    => /\ ~unitResult.fetched
       /\ unitCall.llm.apiKey # ""
          => unitResult.promise = Rejected("Unsupported provider: " \o unitCall.llm.provider)
       /\ unitCall.llm.apiKey = "" => unitResult.promise = Resolved(DemoPayload)

\* callLLM was called with provider azure and an API key, and rejected
C15_Witness ==
    /\ CalledLLM
    /\ unitCall.llm = [provider |-> "azure", apiKey |-> "sk-test"]
    /\ unitResult.promise.state = "rejected"

KnownTools == {"web_search", "execute_code", "process_file", "create_visualization"}
InFlight(t, k) == k = Len(turns[t].batches) /\ turns[t].pc = "awaitTools"

\* C16: for every tool call whose function name is not in the registry,
\* executeTool resolves to {error: 'Unknown tool: <name>'} and does not
\* throw; a batch mixing unknown and known names, none of which throws,
\* records a result for every call and is not treated as a failure.
C16_UnknownToolIsAValue ==
    /\ \A tc \in ToolCallInputs :
          toolName(tc) \notin KnownTools
          => executeTool(tc) = Resolved([error |-> "Unknown tool: " \o toolName(tc)])
    /\ \A t \in Turns : \A k \in 1..Len(turns[t].batches) :
          LET b == turns[t].batches[k]
              N == Len(b.tool_calls)
              tm == ToolMessagesWithId(t, b)
          IN (~InFlight(t, k) /\ ~Throws(b))
             => /\ b.ok
                /\ Len(tm) = N
                /\ turns[t].failedAtCall # k
                /\ \A i \in 1..N :
                      b.tool_calls[i] = tcUnknown
                      => /\ tm[i].msg.tool_call_id = "call_2"
                         /\ tm[i].msg.content = JStr("{\"error\":\"Unknown tool: foo\"}")

\* a batch of web_search and the unknown tool foo has completed, and the
\* loop went on to the next provider call
C16_Witness ==
    \E t \in Turns :
        /\ Len(turns[t].batches) = 1
        /\ turns[t].batches[1].tool_calls = <<tcSearch, tcUnknown>>
        /\ turns[t].batches[1].ok
        /\ turns[t].calls = 2
        /\ Len(ToolMessagesWithId(t, turns[t].batches[1])) = 2

\* the data-model shape {id, function: {name, arguments}}
DataModelShape(tc) ==
    /\ Has(tc, "function") /\ Has(tc.function, "name") /\ Has(tc.function, "arguments")
    /\ ~Has(tc, "arguments")

\* C17: for a tool call of the data-model shape with a known tool name, the
\* handler dispatched by executeTool receives the arguments the call
\* carries: the parsed object for a valid JSON string, the object itself
\* when the arguments are already structured.
C17_HandlerReceivesCarriedArguments ==
    (unitCall.op = "executeTool" /\ DataModelShape(unitCall.toolCall)
        /\ unitCall.toolCall.function.name \in KnownTools
        /\ unitCall.toolCall.function.arguments \in {JStr("{\"query\":\"tla\"}"), ObjectArgs})
    => unitResult.args = JObj([query |-> "tla"])

\* the arguments payload of a tool call, wherever the call carries it
MalformedArguments(tc) ==
    \/ Has(tc, "arguments") /\ tc.arguments = JStr("{oops")
    \/ Has(tc, "function") /\ Has(tc.function, "arguments")
         /\ tc.function.arguments = JStr("{oops")

\* C18: for every tool call whose arguments payload is a string that is
\* not valid JSON, executeTool does not throw: the arguments fall back to
\* the empty object and the named handler is dispatched with {}.
C18_MalformedArgumentsFallBackToEmpty ==
    (unitCall.op = "executeTool" /\ MalformedArguments(unitCall.toolCall))
    => /\ unitResult.args = JObj(EmptyObject)
       /\ unitResult.promise.state = "resolved"
       /\ unitResult.promise = toolDispatch(unitResult.name, JObj(EmptyObject))
       /\ unitResult.name = "web_search"
            => unitResult.promise.value.status = "Simulated search for: undefined"

\* executeTool ran on a web_search call whose top-level arguments are the
\* malformed string, so JSON.parse threw inside the try block
C18_Witness ==
    /\ unitCall.op = "executeTool"
    /\ Has(unitCall.toolCall, "arguments")
    /\ unitCall.toolCall.arguments = JStr("{oops")
    /\ unitResult.name = "web_search"
    /\ unitResult.promise.state = "resolved"

\* the rule of the normalization, message by message
RuleRole(m) == IF m.role = "tool" THEN "system" ELSE m.role
RuleContent(m) ==
    CASE ~Has(m, "content") -> JNull
      [] m.content = JNull -> JStr("null")
      [] m.content = JObj([text |-> "hi"]) -> JStr("{\"text\":\"hi\"}")
      [] OTHER -> m.content
RuleKeeps(m) == RuleContent(m) \notin {JNull, JStr("")}
\* out is the kept messages of log, in log order, each rewritten by Role
FollowsRule(out, log, Role(_)) ==
    LET kept == {i \in 1..Len(log) : RuleKeeps(log[i])}
    IN /\ Len(out) = Cardinality(kept)
       /\ \E f \in [1..Len(out) -> kept] :
             /\ \A j, k \in 1..Len(out) : j < k => f[j] < f[k]
             /\ \A j \in 1..Len(out) :
                   out[j] = [role |-> Role(log[f[j]]), content |-> RuleContent(log[f[j]])]
GoogleRole(m) == IF m.role = "assistant" THEN "model" ELSE "user"

\* C19 as stated: the messages sent with every provider call are the log's
\* messages with tool relabelled system and every other role kept,
\* non-string content JSON-serialized, a message dropped exactly when its
\* serialized content is empty, in log order.
C19_OutboundFollowsRule ==
    (CalledLLM /\ unitResult.fetched)
    => FollowsRule(unitResult.messages, unitCall.messages, RuleRole)

\* C19, amended: the list callLLM builds before the provider switch follows
\* the rule, and so do the messages sent to openai and aipipe; the request
\* to google carries the same messages in the same order with assistant
\* relabelled model and every other role, system included, relabelled user.
C19_NormalizedFollowsRule ==
    CalledLLM
    => /\ FollowsRule(unitResult.normalized, unitCall.messages, RuleRole)
       /\ (unitResult.fetched /\ unitCall.llm.provider \in {"openai", "aipipe"})
          => FollowsRule(unitResult.messages, unitCall.messages, RuleRole)
       /\ (unitResult.fetched /\ unitCall.llm.provider = "google")
          => FollowsRule(unitResult.messages, unitCall.messages, GoogleRole)

\* a request went to openai for a log of a tool message followed by an
\* assistant message with empty content: one system message was sent
C19_Witness ==
    /\ CalledLLM
    /\ unitResult.fetched
    /\ unitCall.llm.provider = "openai"
    /\ Len(unitCall.messages) = 2
    /\ unitCall.messages[1].role = "tool"
    /\ unitCall.messages[2] = [role |-> "assistant", content |-> JStr("")]
    /\ Len(unitResult.messages) = 1
    /\ unitResult.messages[1].role = "system"

ParsedChoices ==
    /\ unitCall.op = "parseAPIResponse"
    /\ unitCall.provider \in {"openai", "aipipe"}
HasEntries(data, f) == data # JNull /\ Has(data, f) /\ Len(data[f]) > 0
\* the text of the first candidate of each candidates payload of ParseInputs
CandidateText(data) ==
    CASE data = PayloadCandidates -> JStr("hi")
      [] data.candidates = <<[content |-> JObj([parts |-> <<[text |-> "a"], [text |-> "b"]>>])]>>
           -> JStr("ab")
      [] data.candidates = <<[content |-> JStr("plain")]>> -> JStr("plain")
      [] OTHER -> JStr("")
\* JSON.stringify of the payloads of ParseInputs without choices and candidates
PayloadText_JSON(data) ==
    CASE data = PayloadNoChoices -> JStr("{\"error\":{\"message\":\"rate limited\"}}")
      [] data = [choices |-> <<>>] -> JStr("{\"choices\":[]}")
      [] OTHER -> JStr("{\"candidates\":[]}")
\* the chain below the choices step, and the error for a null payload
FallbackBelowChoices(data) ==
    /\ data = JNull => unitResult = ParseError
    /\ (~HasEntries(data, "choices") /\ HasEntries(data, "candidates"))
       => unitResult = Parsed([content |-> CandidateText(data)])
    /\ (data # JNull /\ ~HasEntries(data, "choices") /\ ~HasEntries(data, "candidates"))
       => unitResult = Parsed([content |-> PayloadText_JSON(data)])

\* C20 as stated: for openai and aipipe, non-empty choices give the first
\* choice's message; otherwise non-empty candidates give {content: joined
\* text of the first candidate}; otherwise {content: JSON of the payload};
\* null gives the error 'Could not parse the API response.'.
C20_FallbackChain ==
    ParsedChoices
    => /\ HasEntries(unitCall.data, "choices")
          => /\ Has(unitCall.data.choices[1], "message")
             /\ unitResult = Parsed(unitCall.data.choices[1].message)
       /\ FallbackBelowChoices(unitCall.data)

\* C20, amended: as stated, except that a first choice without a message
\* gives {content: the choice's text}, or {content: ''} when it has no text
\* either.
C20_FallbackChainWithText ==
    ParsedChoices
    => /\ HasEntries(unitCall.data, "choices")
          => LET c == unitCall.data.choices[1]
             IN /\ Has(c, "message") => unitResult = Parsed(c.message)
                /\ (~Has(c, "message") /\ Has(c, "text"))
                   => unitResult = Parsed([content |-> JStr(c.text)])
                /\ (~Has(c, "message") /\ ~Has(c, "text"))
                   => unitResult = Parsed([content |-> JStr("")])
       /\ unitCall.data = PayloadText => unitResult = Parsed([content |-> JStr("hi")])
       /\ FallbackBelowChoices(unitCall.data)

\* parseAPIResponse ran for openai on a completion-style payload whose first
\* choice has text and no message
C20_Witness ==
    /\ ParsedChoices
    /\ unitCall.data = [choices |-> <<[text |-> "hi"]>>]
    /\ unitResult = Parsed([content |-> JStr("hi")])

EndsNow(t) == t <= Len(turns') /\ turns[t].pc # "done" /\ turns'[t].pc = "done"
\* the storage after the step holds exactly the conversation map after the step
HoldsCurrentMap ==
    /\ storage'.present
    /\ {e[1] : e \in storage'.entries} = DOMAIN conversations'
    /\ \A e \in storage'.entries : e[2] = conversations'[e[1]]

C22_WitnessOff ==
    \E t \in Turns :
        /\ Ended(t) /\ turns[t].exit = "error"
        /\ ~settings.advanced.autoSave
        /\ storage = NoStorage

LoadedSettings == unitCall.op = "loadSettings"
StoredObject ==
    LoadedSettings /\ unitCall.stored.present /\ unitCall.stored.parses
    /\ unitCall.stored.value # JNull

\* C23: after loadSettings with a stored settings object, for each group g
\* and each field f of DEFAULTS[g], settings[g][f] is the stored value when
\* the stored object has group g with field f and DEFAULTS[g][f] otherwise,
\* a missing group included; with nothing stored or an unparsable text the
\* settings remain the defaults.
C23_StoredSettingsMergeOverDefaults ==
    /\ StoredObject
       => \A g \in {"llm", "ui", "voice", "advanced"} : \A f \in DOMAIN DEFAULTS[g] :
             LET o == unitCall.stored.value.v
                 stored == Has(o, g) /\ o[g] # JNull /\ Has(o[g].v, f)
             IN /\ Has(unitResult, g) /\ Has(unitResult[g], f)
                /\ stored => unitResult[g][f] = o[g].v[f]
                /\ ~stored => unitResult[g][f] = DEFAULTS[g][f]
    /\ (LoadedSettings /\ (~unitCall.stored.present \/ ~unitCall.stored.parses))
       => unitResult = DEFAULTS

\* loadSettings ran on a stored object that has llm.provider only, a null ui
\* group and no voice group: the provider is the stored one, the rest default
C23_Witness ==
    /\ StoredObject
    /\ unitCall.stored.value.v = [llm |-> JObj([provider |-> "openai"]), ui |-> JNull,
                                  advanced |-> JObj([autoSave |-> "false"])]
    /\ unitResult.llm.provider = "openai"
    /\ unitResult.llm.model = "default"
    /\ unitResult.ui = DEFAULTS.ui
    /\ unitResult.voice = DEFAULTS.voice
    /\ unitResult.advanced.autoSave = "false"

\* C24: every createNewConversation call adds a conversation under an id
\* that was not a key of the map, so the map grows by exactly one entry and
\* no existing conversation is replaced, also when two conversations are
\* created at the same clock reading.  (Stated for the clicks that come
\* after the clock reading of boot.)
C24_NewConversationHasFreshId ==
    [][(newChat /\ now > BootTime)
         => /\ currentConversationId' \notin DOMAIN conversations
            /\ Cardinality(DOMAIN conversations') = Cardinality(DOMAIN conversations) + 1
            /\ \A k \in DOMAIN conversations :
                  k \in DOMAIN conversations' /\ conversations'[k] = conversations[k]]_vars

\* C25: under any sequence of user operations no conversation is destroyed:
\* the set of ids of the map never loses an element; clear-chat only empties
\* the message list of the current conversation and leaves every other
\* conversation unchanged.
C25_ConversationsAreNeverDestroyed ==
    [][/\ DOMAIN conversations \subseteq DOMAIN conversations'
       /\ clears' # clears
          => /\ currentConversationId' = currentConversationId
             /\ \A k \in DOMAIN conversations :
                   IF k = currentConversationId
                   THEN /\ conversations'[k].messages = <<>>
                        /\ conversations'[k].id = conversations[k].id
                        /\ conversations'[k].createdAt = conversations[k].createdAt
                   ELSE conversations'[k] = conversations[k]]_vars

\* the map holds three conversations; the current one has been cleared and
\* another one still has its messages
C25_Witness ==
    /\ clears = 1
    /\ Cardinality(DOMAIN conversations) = 3
    /\ conversations[currentConversationId].messages = <<>>
    /\ \E k \in DOMAIN conversations : conversations[k].messages # <<>>

\* C28: every message appended as part of a turn started for conversation C
\* (assistant text, placeholder, tool results, tool-execution and error
\* notes) is appended to C's log, also when the user switches to another
\* conversation during the turn.
C28_TurnWritesOnlyItsConversation ==
    \A t \in Turns : \A i \in 1..Len(turns[t].appended) :
        turns[t].appended[i].conv = turns[t].convId

\* the step is a context-menu delete that found its message
DeletesMessage ==
    /\ Len(toasts') = Len(toasts) + 1
    /\ toasts'[Len(toasts')] = [type |-> "success", title |-> "Deleted"]
\* new is old without its element i
Without(old, i, new) ==
    /\ Len(new) = Len(old) - 1
    /\ \A j \in 1..Len(new) : new[j] = IF j < i THEN old[j] ELSE old[j + 1]

\* C30: the context-menu delete on a selected message removes exactly that
\* one message from the current conversation's log and leaves all other
\* messages present and in their order, also for messages appended within
\* the same clock reading.  (Stated for messages appended after the clock
\* reading of boot.)
C30_DeleteRemovesExactlyOneMessage ==
    [][(DeletesMessage /\ contextMessageId > BootTime)
         => LET old == conversations[currentConversationId].messages
                new == conversations'[currentConversationId].messages
            IN \E i \in 1..Len(old) :
                  /\ Has(old[i], "id") /\ old[i].id = contextMessageId
                  /\ Without(old, i, new)]_vars

\* an updateModelOptions call runs to its end in this step
ListingCompletes == lastListing' # lastListing
ErrorToastShown ==
    /\ Len(toasts') = Len(toasts) + 1
    /\ toasts'[Len(toasts')].type = "error"
RestOfAppUntouched ==
    /\ conversations' = conversations
    /\ isProcessing' = isProcessing
    /\ turns' = turns
    /\ currentConversationId' = currentConversationId

\* C26 as stated: when the listing fetch for the selected provider fails
\* (missing key, non-success status, transport error), updateModelOptions
\* does not reject, shows an error notification, re-enables the model
\* select, caches nothing, and leaves the conversation map, isProcessing and
\* any turn in flight unchanged.
C26_ListingFailureIsNotified ==
    [][(ListingCompletes /\ lastListing'.failure # "none")
         => /\ ~lastListing'.rejected
            /\ ErrorToastShown
            /\ ~modelSelect'.disabled
            /\ modelCache' = modelCache
            /\ RestOfAppUntouched]_vars

\* C26, amended: a listing failure never makes updateModelOptions reject,
\* always re-enables the model select and leaves the conversation map,
\* isProcessing and any turn in flight unchanged.  For openai and google,
\* and for aipipe without a key, an error notification is shown and nothing
\* is cached; for aipipe with a key a failed listing fetch is swallowed: no
\* notification is shown and the built-in fallback list is offered and
\* cached.
C26_ListingFailureIsNonFatal ==
    [][(ListingCompletes /\ lastListing'.failure # "none")
         => /\ ~lastListing'.rejected
            /\ ~modelSelect'.disabled
            /\ RestOfAppUntouched
            /\ (lastListing'.provider # "aipipe" \/ lastListing'.failure = "missingKey")
               => /\ ErrorToastShown
                  /\ modelCache' = modelCache
                  /\ modelSelect'.options = <<>>
            /\ (lastListing'.provider = "aipipe" /\ lastListing'.failure # "missingKey")
               => /\ toasts' = toasts
                  /\ modelSelect'.options = AIpipeFallback
                  /\ modelCache'["aipipe"] = AIpipeFallback]_vars

\* the listing fetch for openai failed in transport while a turn was in
\* flight: the error toast is up, the select is enabled, nothing is cached
C26_Witness ==
    /\ lastListing # NoCall
    /\ lastListing.provider = "openai"
    /\ lastListing.failure = "transport"
    /\ "openai" \notin DOMAIN modelCache
    /\ ~modelSelect.disabled
    /\ toasts # <<>> /\ toasts[Len(toasts)].type = "error"
    /\ isProcessing
    /\ \E t \in Turns : turns[t].pc = "awaitLLM"

\* every updateModelOptions call made so far has run to its end
ListingsQuiescent == listings = <<>> /\ ~debounceTimer /\ lastListing # NoCall

\* C29: under any interleaving of overlapping updateModelOptions calls, once
\* all calls have completed the model select shows the outcome for the
\* provider selected in the form, and when it shows a model list
\* settings.llm.model is a model of that list: a slower call started for a
\* previously selected provider never overwrites the outcome of a later one.
C29_SelectShowsTheSelectedProvider ==
    ListingsQuiescent
    => /\ modelSelect.provider = formProvider
       /\ modelSelect.shows = "models" => llmModel \in Range(modelSelect.options)


Twice == unitCall.op \in {"callLLM twice", "parseAPIResponse twice"}
====
